---------------------------- MODULE Spec2Model ----------------------------
(***************************************************************************)
(* A model of ntpi_dumper (Go version): the Stage-1 envelope parser, the   *)
(* Stage-2 block engine with its segmenter and worker pool, and the        *)
(* crypto helpers they share.                                              *)
(*                                                                         *)
(* Conventions.                                                            *)
(*  - A byte slice is a sequence of integers 0..255.  The nil slice is the *)
(*    marker Nil, which no byte sequence equals.                           *)
(*  - A uint64 field of the binary format is held as the signed 64-bit     *)
(*    integer with the same bit pattern: 0..2^63-1 are themselves and      *)
(*    2^64-k is -k.  Go's int(u) keeps the bit pattern, so the value the   *)
(*    code computes with after `int(x)` is the number held here; the       *)
(*    unsigned comparisons of the code are the operators U64...            *)
(*  - A function result is a record with the fields err (an error was      *)
(*    returned) and panic (the runtime panicked: the process dies with     *)
(*    exit status 2) beside its values.                                    *)
(***************************************************************************)
EXTENDS Integers, Sequences, FiniteSets, TLC

VARIABLES
    fnArgs,         \* pure-function harness: the arguments of the call
    fnRet,          \* pure-function harness: the value returned (NoRet before)
    curTask,        \* one-file harness: the FileTask
    seqResult,      \* one-file harness: what processFileSequential returned
    segPc,          \* processLargeFileSegmented: where it stands
    fileSegments,   \* processLargeFileSegmented: the segments of the split
    segReturned,    \* the segment goroutines that returned (wg.Done), in that order
    segResults,     \* processLargeFileSegmented: segmentResults[idx]
    errorsCh,       \* processLargeFileSegmented: the errors channel
    segResult,      \* one-file harness: what processLargeFileSegmented returned
    pc,             \* whole run: where runExtraction stands
    exitCode,       \* whole run: the exit status of the process (-1: running)
    inputFile,      \* whole run: the archive
    keepTemp,       \* whole run: the --keep-temp flag
    numWorkers,     \* whole run: the --workers flag, then the pool size
    fsDirs,         \* whole run: the directories made
    fsFiles,        \* whole run: the files and their content
    walk,           \* ParseNTPIFile: currentOffset, currentRegion, regionCount
    tasks,          \* ExtractFiles: the task list
    jobs,           \* processFilesParallel: the jobs channel
    results,        \* processFilesParallel: the results received
    workers,        \* processFilesParallel: the state of every worker
    stage1,         \* how Stage 1 ended ("none" before)
    stage2          \* how far Stage 2 came ("none" before)

pureVars == <<fnArgs, fnRet>>

segVars == <<curTask, seqResult, segPc, fileSegments, segReturned, segResults,
             errorsCh, segResult>>

vars == <<fnArgs, fnRet, curTask, seqResult, segPc, fileSegments, segReturned,
          segResults, errorsCh, segResult, pc, exitCode, inputFile, keepTemp,
          numWorkers, fsDirs, fsFiles, walk, tasks, jobs, results, workers,
          stage1, stage2>>

runVars == <<pc, exitCode, inputFile, keepTemp, numWorkers, fsDirs, fsFiles,
             walk, tasks, jobs, results, workers, stage1, stage2>>

notPure == <<segVars, runVars>>
notSeg == <<pureVars, runVars>>
notRun == <<pureVars, segVars>>

----------------------------------------------------------------------------
(* Bounds of the model *)

\* longest KeyMap table of the key-extraction harness, in bytes
MaxTableLen == 70
\* largest key index of the key-extraction harness
MaxKeyIndex == 4
\* longest run of equal trailing bytes of the plaintexts of the AES harness
MaxPadRun == 17
\* length in bytes of the KeyMap of the modelled archives
KeyMapLen == 70
\* largest segment count of the one-file harness
MaxSegments == 3

----------------------------------------------------------------------------
(* Byte-slice helpers *)

Nil == <<-1>>

NoRet == [fn |-> "none"]

\* the values of the variables a specification does not use
PureIdle == fnArgs = NoRet /\ fnRet = NoRet

SegIdle ==
    /\ curTask = NoRet /\ seqResult = NoRet /\ segPc = "idle" /\ fileSegments = <<>>
    /\ segReturned = <<>> /\ segResults = <<>> /\ errorsCh = <<>>
    /\ segResult = NoRet

RunIdle ==
    /\ pc = "idle" /\ exitCode = -1 /\ inputFile = NoRet /\ keepTemp = FALSE
    /\ numWorkers = 0 /\ fsDirs = {} /\ fsFiles = <<>> /\ walk = NoRet
    /\ tasks = <<>> /\ jobs = <<>> /\ results = <<>> /\ workers = <<>>
    /\ stage1 = "none" /\ stage2 = "none"

Min(a, b) == IF a < b THEN a ELSE b

\* the element of a one-element set.  Only({ F(x) : x \in {e} }) is F(e)
\* with e evaluated once, however often F uses it; s \o <<>> is the
\* sequence s written out element by element.
Only(S) == CHOOSE x \in S : TRUE

Zeros(n) == [i \in 1..n |-> 0]

\* s[lo:hi] of a Go slice with length Len(s) and capacity cap whose spare
\* capacity holds zero bytes; the caller has checked SliceInRange first.
GoSlice(s, lo, hi) ==
    [i \in 1..(hi - lo) |-> IF lo + i <= Len(s) THEN s[lo + i] ELSE 0]

\* the runtime's bounds check of s[lo:hi]: 0 <= lo <= hi <= cap(s)
SliceInRange(lo, hi, cap) == 0 <= lo /\ lo <= hi /\ hi <= cap

\* os.ReadFile allocates at least 512 bytes, and one more than the file size
ReadFileCap(n) == IF n + 1 < 512 THEN 512 ELSE n + 1

----------------------------------------------------------------------------
(* pkg/crypto: KeyMap accessor *)

\* keyOffset after `if keyOffset >= len(keymapData) { keyOffset %= len }`
KeyOffsetWrap(keyOffset, n) ==
    IF keyOffset >= n THEN keyOffset % n ELSE keyOffset

\* keymapData is [b |-> the bytes, cap |-> the capacity of the slice]
ExtractKeyFromKeyMap(keymapData, keyIndex) ==
    LET b == keymapData.b
        n == Len(b)
    IN  IF b = Nil \/ n = 0
        THEN [err |-> TRUE, panic |-> FALSE, key |-> <<>>]
        ELSE
        LET keyOffset == KeyOffsetWrap(keyIndex * 32, n)
        IN  IF keyOffset + 32 > n
            THEN \* wrap around and concatenate
                 IF ~SliceInRange(keyOffset, n, keymapData.cap)
                 THEN [err |-> FALSE, panic |-> TRUE, key |-> <<>>]
                 ELSE
                 LET firstPart == GoSlice(b, keyOffset, n)
                     remaining == 32 - Len(firstPart)
                 IN  IF ~SliceInRange(0, remaining, keymapData.cap)
                     THEN [err |-> FALSE, panic |-> TRUE, key |-> <<>>]
                     ELSE [err |-> FALSE, panic |-> FALSE,
                           key |-> firstPart \o GoSlice(b, 0, remaining)]
            ELSE IF ~SliceInRange(keyOffset, keyOffset + 32, keymapData.cap)
                 THEN [err |-> FALSE, panic |-> TRUE, key |-> <<>>]
                 ELSE [err |-> FALSE, panic |-> FALSE,
                       key |-> GoSlice(b, keyOffset, keyOffset + 32)]

----------------------------------------------------------------------------
(* Harness of ExtractKeyFromKeyMap: a table and a capacity are chosen, then *)
(* the keys of successive indices are extracted, as the block loops do.    *)

\* a table whose i-th byte (from 0) is i+1: every position is recognisable
IotaTable(n) == [i \in 1..n |-> i]

KeyInit ==
    /\ \E n \in 1..MaxTableLen : \E spare \in BOOLEAN :
          fnArgs = [fn |-> "ExtractKeyFromKeyMap",
                    keymapData |-> [b |-> IotaTable(n),
                                    cap |-> IF spare THEN ReadFileCap(n) ELSE n],
                    keyIndex |-> 0]
    /\ fnRet = NoRet
    /\ SegIdle
    /\ RunIdle

KeyExtract ==
    /\ fnArgs.fn = "ExtractKeyFromKeyMap"
    /\ fnRet = NoRet
    /\ fnRet' = ExtractKeyFromKeyMap(fnArgs.keymapData, fnArgs.keyIndex)
    /\ UNCHANGED <<fnArgs, notPure>>

KeyNextIndex ==
    /\ fnArgs.fn = "ExtractKeyFromKeyMap"
    /\ fnRet /= NoRet
    /\ ~fnRet.panic
    /\ fnArgs.keyIndex < MaxKeyIndex
    /\ fnArgs' = [fnArgs EXCEPT !.keyIndex = @ + 1]
    /\ fnRet' = NoRet
    /\ UNCHANGED notPure

KeyNext == KeyExtract \/ KeyNextIndex

SpecKey == KeyInit /\ [][KeyNext]_vars

DoubledSlice(table, offset) ==
    LET d == table \o table
    IN  [i \in 1..Min(32, Len(d) - offset) |-> d[offset + i]]

\* C9: for every non-empty table and every index >= 0 ExtractKeyFromKeyMap
\* returns, without error, exactly 32 bytes equal to
\* (table ++ table)[offset .. offset+32], offset = (index*32) mod len(table).
C9_KeyMapWrap ==
    (fnArgs.fn = "ExtractKeyFromKeyMap" /\ fnRet /= NoRet) =>
        /\ ~fnRet.err
        /\ ~fnRet.panic
        /\ Len(fnRet.key) = 32
        /\ fnRet.key = DoubledSlice(fnArgs.keymapData.b,
                           (fnArgs.keyIndex * 32) % Len(fnArgs.keymapData.b))

----------------------------------------------------------------------------
(* pkg/crypto: AES-CBC unit *)

AESBlockSize == 16

\* crypto/aes and crypto/cipher are modelled as an ideal cipher: a ciphertext
\* is [pt, key, iv], the plaintext it was made from and the key and IV used.
\* Decrypting with another key yields other bytes everywhere, with another
\* IV other bytes in the first block only (CBC).
GarbleByte(b) == (b + 1) % 256

CryptBlocks(encryptedData, key, iv) ==
    Only({ [i \in 1..Len(pt) |->
               IF ~sameKey THEN GarbleByte(pt[i])
               ELSE IF ~sameIV /\ i <= AESBlockSize THEN GarbleByte(pt[i])
               ELSE pt[i]] :
           pt \in {encryptedData.pt \o <<>>},
           sameKey \in {key = encryptedData.key},
           sameIV \in {iv = encryptedData.iv} }) \o <<>>

\* the loop `for i := len(data) - paddingLen; i < len(data); i++`
RECURSIVE PaddingBytesMatch(_, _, _)
PaddingBytesMatch(data, i, paddingLen) ==
    IF i >= Len(data) THEN TRUE
    ELSE IF data[i + 1] /= paddingLen THEN FALSE
    ELSE PaddingBytesMatch(data, i + 1, paddingLen)

removePKCS7PaddingNoVerify(data) ==
    IF Len(data) = 0 THEN data
    ELSE LET paddingLen == data[Len(data)]
         IN  IF paddingLen = 0 \/ paddingLen > AESBlockSize \/ paddingLen > Len(data)
             THEN data
             ELSE SubSeq(data, 1, Len(data) - paddingLen)

removePKCS7Padding(data) ==
    IF Len(data) = 0 THEN data
    ELSE LET paddingLen == data[Len(data)]
         IN  IF paddingLen = 0 \/ paddingLen > AESBlockSize \/ paddingLen > Len(data)
             THEN data
             ELSE IF ~PaddingBytesMatch(data, Len(data) - paddingLen, paddingLen)
             THEN data
             ELSE SubSeq(data, 1, Len(data) - paddingLen)

DecryptAESCBCNoIVCheck(encryptedData, key, iv) ==
    LET k == IF key = Nil THEN Zeros(32) ELSE key
        v == IF iv = Nil THEN Zeros(16) ELSE iv
    IN  IF Len(k) /= 16 /\ Len(k) /= 24 /\ Len(k) /= 32
        THEN [err |-> TRUE, data |-> Nil]
        ELSE IF Len(encryptedData.pt) % AESBlockSize /= 0
        THEN [err |-> TRUE, data |-> Nil]
        ELSE [err |-> FALSE,
              data |-> Only({ removePKCS7Padding(raw) :
                              raw \in {CryptBlocks(encryptedData, k, v)} })]

DecryptAESCBC(encryptedData, key, iv) ==
    LET k == IF key = Nil THEN Zeros(32) ELSE key
        v == IF iv = Nil THEN Zeros(16) ELSE iv
    IN  IF Len(k) /= 16 /\ Len(k) /= 24 /\ Len(k) /= 32
        THEN [err |-> TRUE, data |-> Nil]
        ELSE IF Len(v) /= 16
        THEN [err |-> TRUE, data |-> Nil]
        ELSE IF Len(encryptedData.pt) % AESBlockSize /= 0
        THEN [err |-> TRUE, data |-> Nil]
        ELSE [err |-> FALSE,
              data |-> Only({ removePKCS7Padding(raw) :
                              raw \in {CryptBlocks(encryptedData, k, v)} })]

----------------------------------------------------------------------------
(* Harness of DecryptAESCBC: a plaintext, a key and an IV are chosen and    *)
(* the ciphertext of the plaintext is decrypted.                           *)

\* n bytes `fill` whose last `run` bytes are `p`
PaddedData(n, fill, p, run) ==
    [i \in 1..n |-> IF i > n - run THEN p ELSE fill]

HarnessKey == [i \in 1..32 |-> 100 + i]
HarnessIV == [i \in 1..16 |-> 200 + i]

AesPlaintexts ==
    { PaddedData(n, fill, p, run) :
        n \in {0, 8, 16, 32}, fill \in {1, 16, 200},
        p \in {0, 1, 2, 3, 15, 16, 17, 255}, run \in 0..MaxPadRun }

AesKeys ==
    { HarnessKey, Nil, <<>>, Zeros(32), SubSeq(HarnessKey, 1, 16),
      SubSeq(HarnessKey, 1, 24), SubSeq(HarnessKey, 1, 31) }

AesIVs == { HarnessIV, Nil, <<>>, Zeros(16), SubSeq(HarnessIV, 1, 15) }

AesInit ==
    /\ \E pt \in AesPlaintexts : \E key \in AesKeys : \E iv \in AesIVs :
          fnArgs = [fn |-> "DecryptAESCBC",
                    encryptedData |-> [pt |-> pt, key |-> HarnessKey,
                                       iv |-> HarnessIV],
                    key |-> key, iv |-> iv]
    /\ fnRet = NoRet
    /\ SegIdle
    /\ RunIdle

AesDecrypt ==
    /\ fnArgs.fn = "DecryptAESCBC"
    /\ fnRet = NoRet
    /\ fnRet' = DecryptAESCBC(fnArgs.encryptedData, fnArgs.key, fnArgs.iv)
    /\ UNCHANGED <<fnArgs, notPure>>

AesNext == AesDecrypt

SpecAes == AesInit /\ [][AesNext]_vars

\* the raw CBC output of the call in fnArgs (the key and IV defaults applied)
RawPlaintext ==
    CryptBlocks(fnArgs.encryptedData,
                IF fnArgs.key = Nil THEN Zeros(32) ELSE fnArgs.key,
                IF fnArgs.iv = Nil THEN Zeros(16) ELSE fnArgs.iv)

ValidPadding(raw) ==
    /\ Len(raw) > 0
    /\ raw[Len(raw)] >= 1
    /\ raw[Len(raw)] <= 16
    /\ \A i \in (Len(raw) - raw[Len(raw)] + 1)..Len(raw) : raw[i] = raw[Len(raw)]

SizesValid ==
    /\ Len(fnArgs.encryptedData.pt) > 0
    /\ Len(fnArgs.encryptedData.pt) % 16 = 0
    /\ fnArgs.key /= Nil /\ Len(fnArgs.key) \in {16, 24, 32}
    /\ fnArgs.iv /= Nil /\ Len(fnArgs.iv) = 16

\* C10: PKCS#7 tolerance.  With p the last byte of the raw CBC plaintext,
\* DecryptAESCBC returns the plaintext without its last p bytes exactly when
\* 1 <= p <= 16 and the last p bytes all equal p; in every other case it
\* returns the raw plaintext unmodified, and in neither case an error.
C10_PKCS7Tolerance ==
    (fnArgs.fn = "DecryptAESCBC" /\ fnRet /= NoRet /\ SizesValid) =>
        LET raw == RawPlaintext
            p == raw[Len(raw)]
        IN  /\ ~fnRet.err
            /\ ValidPadding(raw) =>
                 fnRet.data = [i \in 1..(Len(raw) - p) |-> raw[i]]
            /\ ~ValidPadding(raw) => fnRet.data = raw

\* a padded plaintext was decrypted and its padding stripped
C10_Witness ==
    /\ fnArgs.fn = "DecryptAESCBC" /\ fnRet /= NoRet /\ SizesValid
    /\ ~fnRet.err
    /\ ValidPadding(RawPlaintext)
    /\ RawPlaintext[Len(RawPlaintext)] = 3
    /\ Len(fnRet.data) = Len(RawPlaintext) - 3

AesCalled == fnArgs.fn = "DecryptAESCBC" /\ fnRet /= NoRet

CiphertextSizeBad == Len(fnArgs.encryptedData.pt) % 16 /= 0

\* the sizes as the claim reads them: an absent key or IV is a bad size
SizeBadAbsentIncluded ==
    \/ CiphertextSizeBad
    \/ fnArgs.key = Nil \/ Len(fnArgs.key) \notin {16, 24, 32}
    \/ fnArgs.iv = Nil \/ Len(fnArgs.iv) /= 16

\* the sizes of what is present
SizeBadOfPresent ==
    \/ CiphertextSizeBad
    \/ fnArgs.key /= Nil /\ Len(fnArgs.key) \notin {16, 24, 32}
    \/ fnArgs.iv /= Nil /\ Len(fnArgs.iv) /= 16

\* plaintext came back: the raw CBC output or what is left of it without
\* its padding
Decrypted ==
    /\ ~fnRet.err
    /\ fnRet.data /= Nil
    /\ Len(fnRet.data) <= Len(RawPlaintext)
    /\ \A i \in 1..Len(fnRet.data) : fnRet.data[i] = RawPlaintext[i]

SizeError == fnRet.err /\ fnRet.data = Nil

\* C11 (as claimed): DecryptAESCBC returns a size error and no plaintext
\* whenever the ciphertext length is not a multiple of 16, the key is absent
\* or not 16, 24 or 32 bytes long, or the IV is absent or not 16 bytes long,
\* and decrypts otherwise.
C11_SizeErrors ==
    AesCalled => IF SizeBadAbsentIncluded THEN SizeError ELSE Decrypted

\* C11 (amended): an absent key stands for 32 zero bytes and an absent IV
\* for 16 zero bytes; DecryptAESCBC returns a size error and no plaintext
\* whenever the ciphertext length is not a multiple of 16, a present key is
\* not 16, 24 or 32 bytes long (a zero-length key included) or a present IV
\* is not 16 bytes long, and decrypts otherwise.
C11_SizeErrorsOfPresent ==
    AesCalled => IF SizeBadOfPresent THEN SizeError ELSE Decrypted

\* a call with a 15-byte IV and good other sizes came back with the error
C11_Witness ==
    /\ AesCalled
    /\ Len(fnArgs.encryptedData.pt) = 32
    /\ fnArgs.key = HarnessKey
    /\ fnArgs.iv /= Nil /\ Len(fnArgs.iv) = 15
    /\ SizeError

----------------------------------------------------------------------------
(* pkg/structures and pkg/extractor: block headers, LZMA2, SHA-256 *)

NTEncodeHeaderSize == 112

\* "NTENCODE"
NTEncodeMagic == <<78, 84, 69, 78, 67, 79, 68, 69>>

\* What region6Data holds is [len, at]: its length in bytes and, for every
\* offset where the archive's writer put a block, the block: the fields of
\* its 112-byte NTEncodeHeader (Magic, ProcessedSize, OriginalSize, IV) and
\* the ciphertext ct that follows.  Bytes elsewhere are not a header.
NotAHeader ==
    [Magic |-> Zeros(8), ProcessedSize |-> 0, OriginalSize |-> 0,
     IV |-> Zeros(16), ct |-> [pt |-> <<>>, key |-> <<>>, iv |-> <<>>]]

BytesAt(region6Data, offset) ==
    IF offset \in DOMAIN region6Data.at THEN region6Data.at[offset] ELSE NotAHeader

\* region6Data[offset : end] as the argument of ParseNTEncodeHeader: its
\* length and the header fields its first bytes hold
HeaderSlice(region6Data, offset, end) ==
    [len |-> end - offset, h |-> BytesAt(region6Data, offset)]

ParseNTEncodeHeaderMagicFirst(data) ==
    IF data.h.Magic /= NTEncodeMagic
    THEN [err |-> TRUE, msg |-> "invalid magic", header |-> NotAHeader]
    ELSE IF data.len < 112
    THEN [err |-> TRUE, msg |-> "data too small", header |-> NotAHeader]
    ELSE [err |-> FALSE, msg |-> "", header |-> data.h]

ParseNTEncodeHeader(data) ==
    IF data.len < 112
    THEN [err |-> TRUE, msg |-> "data too small", header |-> NotAHeader]
    ELSE IF data.h.Magic /= NTEncodeMagic
    THEN [err |-> TRUE, msg |-> "invalid magic", header |-> NotAHeader]
    ELSE [err |-> FALSE, msg |-> "", header |-> data.h]

\* region6Data[dataOffset : dataOffset+encryptedSize] as a ciphertext: the
\* ciphertext of the block whose header precedes dataOffset, cut or followed
\* by foreign bytes when the size differs from the one it was written with
EncryptedSlice(region6Data, dataOffset, encryptedSize) ==
    LET ct == BytesAt(region6Data, dataOffset - NTEncodeHeaderSize).ct
    IN  [pt |-> [i \in 1..encryptedSize |->
                    IF i <= Len(ct.pt) THEN ct.pt[i] ELSE 255],
         key |-> ct.key, iv |-> ct.iv]

DecryptNTEncodeBlock(region6Data, offset, key) ==
    LET fail == [err |-> TRUE, panic |-> FALSE, nextOffset |-> 0, data |-> Nil,
                 iv |-> <<>>]
        crash == [err |-> FALSE, panic |-> TRUE, nextOffset |-> 0, data |-> Nil,
                  iv |-> <<>>]
        headerSize == NTEncodeHeaderSize
    IN  IF offset >= region6Data.len THEN fail
        ELSE IF offset + headerSize > region6Data.len THEN fail
        ELSE IF ~SliceInRange(offset, offset + headerSize, region6Data.len) THEN crash
        ELSE
        LET parsed == ParseNTEncodeHeader(
                          HeaderSlice(region6Data, offset, offset + headerSize))
            dataOffset == offset + headerSize
            encryptedSize == parsed.header.OriginalSize
        IN  IF parsed.err THEN fail
            ELSE IF dataOffset + encryptedSize > region6Data.len THEN fail
            ELSE IF ~SliceInRange(dataOffset, dataOffset + encryptedSize,
                                  region6Data.len) THEN crash
            ELSE
            Only({ IF dec.err THEN fail
                   ELSE [err |-> FALSE, panic |-> FALSE,
                         nextOffset |-> dataOffset + encryptedSize,
                         data |-> dec.data,
                         iv |-> parsed.header.IV] :
                   dec \in {DecryptAESCBC(
                               EncryptedSlice(region6Data, dataOffset, encryptedSize),
                               key, parsed.header.IV)} })

\* A raw LZMA2 stream of uncompressed chunks: control byte 1 or 2, two bytes
\* (size-1, big-endian), the data; control byte 0 ends the stream.  Bytes
\* after the end marker are not read.  Other control bytes (LZMA chunks)
\* do not occur in the modelled archives and are a stream error.
RECURSIVE Lzma2Decode(_, _, _)
Lzma2Decode(stream, pos, acc) ==
    IF pos > Len(stream) THEN [err |-> TRUE, data |-> <<>>]
    ELSE IF stream[pos] = 0 THEN [err |-> FALSE, data |-> acc]
    ELSE IF stream[pos] \notin {1, 2} \/ pos + 2 > Len(stream)
    THEN [err |-> TRUE, data |-> <<>>]
    ELSE LET size == stream[pos + 1] * 256 + stream[pos + 2] + 1
         IN  IF pos + 2 + size > Len(stream) THEN [err |-> TRUE, data |-> <<>>]
             ELSE Lzma2Decode(stream, pos + 3 + size,
                              acc \o SubSeq(stream, pos + 3, pos + 2 + size))

\* data: a byte slice; the magic is the only field the callers look at
ParseNTDecompressHeader(data) ==
    IF Len(data) < 112 THEN [err |-> TRUE, msg |-> "data too small"]
    ELSE IF SubSeq(data, 1, 8) /= NTEncodeMagic
    THEN [err |-> TRUE, msg |-> "invalid magic"]
    ELSE [err |-> FALSE, msg |-> ""]

decompressLZMA2(decryptedData) ==
    IF Len(decryptedData) < 112 THEN [err |-> TRUE, data |-> <<>>]
    ELSE IF SubSeq(decryptedData, 1, 8) /= NTEncodeMagic
    THEN [err |-> TRUE, data |-> <<>>]
    ELSE IF ParseNTDecompressHeader(SubSeq(decryptedData, 1, 112)).err
    THEN [err |-> TRUE, data |-> <<>>]
    ELSE IF 112 >= Len(decryptedData) THEN [err |-> TRUE, data |-> <<>>]
    ELSE Only({ Lzma2Decode(stream, 1, <<>>) :
                stream \in {SubSeq(decryptedData, 113, Len(decryptedData))} })

\* crypto/sha256 as an ideal hash: a digest that no two inputs share
Sha256Sum(data) == <<Len(data)>> \o data

HexDigit(n) == IF n < 10 THEN 48 + n ELSE 87 + n

\* hex.EncodeToString: two lower-case ASCII digits per byte
HexEncodeToString(b) ==
    Only({ [i \in 1..(2 * Len(src)) |->
               IF i % 2 = 1 THEN HexDigit(src[(i + 1) \div 2] \div 16)
               ELSE HexDigit(src[i \div 2] % 16)] :
           src \in {b} }) \o <<>>

ToLower(c) == IF c >= 65 /\ c <= 90 THEN c + 32 ELSE c

\* strings.EqualFold on ASCII strings
EqualFold(s, t) ==
    /\ Len(s) = Len(t)
    /\ \A i \in 1..Len(s) : ToLower(s[i]) = ToLower(t[i])

verifyHash(data, expectedHash) ==
    Only({ EqualFold(actualHash, expectedHash) :
           actualHash \in {HexEncodeToString(Sha256Sum(data))} })


----------------------------------------------------------------------------
(* pkg/structures: little-endian fields, the NTPI header, region headers   *)

\* A uint64 field as binary.Read decodes it.  Values below 2^31 are
\* themselves, values from 2^64-2^31 on are held as the negative integer
\* int(v) gives; the values between, which no buffer of the model can hold,
\* are held as +-2^30.
LE64Value(b) ==
    LET low == b[1] + 256 * b[2] + 65536 * b[3]
        high0 == b[5] = 0 /\ b[6] = 0 /\ b[7] = 0 /\ b[8] = 0
        highF == b[5] = 255 /\ b[6] = 255 /\ b[7] = 255 /\ b[8] = 255
    IN  IF high0 /\ b[4] < 128 THEN low + 16777216 * b[4]
        ELSE IF highF /\ b[4] >= 128 THEN low + 16777216 * (b[4] - 256)
        ELSE IF b[8] >= 128 THEN -1073741824 ELSE 1073741824

\* the 8 bytes an archive's writer puts for v (negative v: 2^64 + v)
LE64(v) ==
    [i \in 1..8 |->
        IF i = 1 THEN v % 256
        ELSE IF i = 2 THEN (v \div 256) % 256
        ELSE IF i = 3 THEN (v \div 65536) % 256
        ELSE IF i = 4 THEN (v \div 16777216) % 256
        ELSE IF v < 0 THEN 255 ELSE 0]

NTPIHeaderSize == 48

\* "NTPI"
NTPIMagic == <<78, 84, 80, 73>>

\* "NTPX"
NTPXMagic == <<78, 84, 80, 88>>

RegionHeaderAt(data, pos) ==
    [RegionType |-> LE64Value(SubSeq(data, pos + 1, pos + 8)),
     RegionSize |-> LE64Value(SubSeq(data, pos + 9, pos + 16))]

\* data: the first bytes of the file (at most 48 are looked at)
ParseNTPIHeader(data) ==
    IF Len(data) < 48 THEN [err |-> TRUE, msg |-> "data too small"]
    ELSE IF SubSeq(data, 1, 4) /= NTPIMagic THEN [err |-> TRUE, msg |-> "invalid magic"]
    ELSE [err |-> FALSE,
          msg |-> "",
          VersionMajor |-> LE64Value(SubSeq(data, 9, 16)),
          VersionMinor |-> LE64Value(SubSeq(data, 17, 24)),
          VersionPatch |-> LE64Value(SubSeq(data, 25, 32)),
          FirstRegion |-> RegionHeaderAt(data, 32)]

RegionBlockHeaderSize == 40

ParseRegionBlockHeaderThisForNext(data) ==
    IF Len(data) < 40 THEN [err |-> TRUE]
    ELSE [err |-> FALSE,
          ThisHeader |-> RegionHeaderAt(data, 0),
          NextHeader |-> RegionHeaderAt(data, 0),
          RealSize |-> LE64Value(SubSeq(data, 33, 40))]

ParseRegionBlockHeader(data) ==
    IF Len(data) < 40 THEN [err |-> TRUE]
    ELSE [err |-> FALSE,
          ThisHeader |-> RegionHeaderAt(data, 0),
          NextHeader |-> RegionHeaderAt(data, 16),
          RealSize |-> LE64Value(SubSeq(data, 33, 40))]

RegionNamePatchForRawProgram(regionType) ==
    CASE regionType = 1 -> "Metadata"
      [] regionType = 2 -> "Patch"
      [] regionType = 3 -> "Patch"
      [] regionType = 4 -> "KeyMap"
      [] regionType = 5 -> "FileIndex"
      [] regionType = 6 -> "Region6"
      [] OTHER -> "Unknown"

RegionName(regionType) ==
    CASE regionType = 1 -> "Metadata"
      [] regionType = 2 -> "Patch"
      [] regionType = 3 -> "RawProgram"
      [] regionType = 4 -> "KeyMap"
      [] regionType = 5 -> "FileIndex"
      [] regionType = 6 -> "Region6"
      [] OTHER -> "Unknown"

----------------------------------------------------------------------------
(* pkg/structures: the key registry.  Hex strings are sequences of ASCII   *)
(* codes; Keys[n] stands for Keys["key_n"], IVs[n] for IVs["iv_n"].       *)

AESDict_V1_3_0 ==
    [Version |-> "1.3.0",
     Keys |-> <<
          \* "08ed9260dec3807aac3ec00e765186cf4b9c677601ba844f8ec3e8c2fe1e11cb"
          <<48, 56, 101, 100, 57, 50, 54, 48, 100, 101, 99, 51, 56, 48, 55, 97,
            97, 99, 51, 101, 99, 48, 48, 101, 55, 54, 53, 49, 56, 54, 99, 102,
            52, 98, 57, 99, 54, 55, 55, 54, 48, 49, 98, 97, 56, 52, 52, 102,
            56, 101, 99, 51, 101, 56, 99, 50, 102, 101, 49, 101, 49, 49, 99, 98>>,
          \* "7cec0ee7e63a703197afa8e09ce40f9b10a5fded6e5f04cb4ba7a435ed600288"
          <<55, 99, 101, 99, 48, 101, 101, 55, 101, 54, 51, 97, 55, 48, 51, 49,
            57, 55, 97, 102, 97, 56, 101, 48, 57, 99, 101, 52, 48, 102, 57, 98,
            49, 48, 97, 53, 102, 100, 101, 100, 54, 101, 53, 102, 48, 52, 99, 98,
            52, 98, 97, 55, 97, 52, 51, 53, 101, 100, 54, 48, 48, 50, 56, 56>>,
          \* "76fa1a8d6663aae8b964470c384508f7f974d21af2535cd3549c7c51ed68b0e6"
          <<55, 54, 102, 97, 49, 97, 56, 100, 54, 54, 54, 51, 97, 97, 101, 56,
            98, 57, 54, 52, 52, 55, 48, 99, 51, 56, 52, 53, 48, 56, 102, 55,
            102, 57, 55, 52, 100, 50, 49, 97, 102, 50, 53, 51, 53, 99, 100, 51,
            53, 52, 57, 99, 55, 99, 53, 49, 101, 100, 54, 56, 98, 48, 101, 54>>,
          \* "1c37c2a0b579512481e8529532909c7c1be72f9bb5e1a4610328a5e2b67c10f4"
          <<49, 99, 51, 55, 99, 50, 97, 48, 98, 53, 55, 57, 53, 49, 50, 52,
            56, 49, 101, 56, 53, 50, 57, 53, 51, 50, 57, 48, 57, 99, 55, 99,
            49, 98, 101, 55, 50, 102, 57, 98, 98, 53, 101, 49, 97, 52, 54, 49,
            48, 51, 50, 56, 97, 53, 101, 50, 98, 54, 55, 99, 49, 48, 102, 52>>,
          \* "4ae22e3ae6ff0b65d06fa18df4f99ae59e6a90cb92ca03de65b64fc0fac958ce"
          <<52, 97, 101, 50, 50, 101, 51, 97, 101, 54, 102, 102, 48, 98, 54, 53,
            100, 48, 54, 102, 97, 49, 56, 100, 102, 52, 102, 57, 57, 97, 101, 53,
            57, 101, 54, 97, 57, 48, 99, 98, 57, 50, 99, 97, 48, 51, 100, 101,
            54, 53, 98, 54, 52, 102, 99, 48, 102, 97, 99, 57, 53, 56, 99, 101>> >>,
     IVs |-> <<
          \* "0797205f6b02c0232cd2798795ba588d"
          <<48, 55, 57, 55, 50, 48, 53, 102, 54, 98, 48, 50, 99, 48, 50, 51,
            50, 99, 100, 50, 55, 57, 56, 55, 57, 53, 98, 97, 53, 56, 56, 100>>,
          \* "01c5aaae7c4001592ea6a2310364a9a1"
          <<48, 49, 99, 53, 97, 97, 97, 101, 55, 99, 52, 48, 48, 49, 53, 57,
            50, 101, 97, 54, 97, 50, 51, 49, 48, 51, 54, 52, 97, 57, 97, 49>>,
          \* "de930fcc2c37009400e21dfa9f7d1363"
          <<100, 101, 57, 51, 48, 102, 99, 99, 50, 99, 51, 55, 48, 48, 57, 52,
            48, 48, 101, 50, 49, 100, 102, 97, 57, 102, 55, 100, 49, 51, 54, 51>>,
          \* "ab15d90ce88a83680a4074d5bb96d94c"
          <<97, 98, 49, 53, 100, 57, 48, 99, 101, 56, 56, 97, 56, 51, 54, 56,
            48, 97, 52, 48, 55, 52, 100, 53, 98, 98, 57, 54, 100, 57, 52, 99>>,
          \* "eaaa17604ad7dae5773639c217978da5"
          <<101, 97, 97, 97, 49, 55, 54, 48, 52, 97, 100, 55, 100, 97, 101, 53,
            55, 55, 51, 54, 51, 57, 99, 50, 49, 55, 57, 55, 56, 100, 97, 53>> >>]

DefaultAESDict == AESDict_V1_3_0

\* the keys of VersionKeyMap are strings, held as their ASCII codes: "1.3.0"
VersionKeyMap ==
    << [version |-> <<49, 46, 51, 46, 48>>, dict |-> AESDict_V1_3_0] >>

\* fmt.Sprintf("%d", n) of an unsigned n (the versions of the model are
\* below 2^31)
RECURSIVE FormatUint(_)
FormatUint(n) ==
    IF n < 10 THEN <<48 + n>> ELSE FormatUint(n \div 10) \o <<48 + (n % 10)>>

\* key[:len(prefix)] == prefix, guarded by len(key) >= len(prefix)
HasPrefix(key, prefix) ==
    Len(key) >= Len(prefix) /\ SubSeq(key, 1, Len(prefix)) = prefix

\* a nil *AESKeyDict
NilDict == [Version |-> "nil", Keys |-> <<>>, IVs |-> <<>>]

\* the registry has one entry: the order in which `range` visits the map
\* does not matter
GetAESDictForVersion(major, minor, patch) ==
    LET version == FormatUint(major) \o <<46>> \o FormatUint(minor)
                     \o <<46>> \o FormatUint(patch)
        partialVersion == FormatUint(major) \o <<46>> \o FormatUint(minor)
    IN  IF \E k \in 1..Len(VersionKeyMap) : VersionKeyMap[k].version = version
        THEN (CHOOSE e \in { VersionKeyMap[k] : k \in 1..Len(VersionKeyMap) } :
                  e.version = version).dict
        ELSE IF \E k \in 1..Len(VersionKeyMap) :
                    HasPrefix(VersionKeyMap[k].version, partialVersion)
        THEN (CHOOSE e \in { VersionKeyMap[k] : k \in 1..Len(VersionKeyMap) } :
                  HasPrefix(e.version, partialVersion)).dict
        ELSE DefaultAESDict

GetKeyForRegion(d, regionType) ==
    IF regionType \in DOMAIN d.Keys THEN d.Keys[regionType] ELSE <<>>

GetIVForRegion(d, regionType) ==
    IF regionType \in DOMAIN d.IVs THEN d.IVs[regionType] ELSE <<>>

HexVal(c) ==
    IF c >= 48 /\ c <= 57 THEN c - 48
    ELSE IF c >= 97 /\ c <= 102 THEN c - 87
    ELSE IF c >= 65 /\ c <= 70 THEN c - 55
    ELSE -1

\* hex.DecodeString
HexDecodeString(str) ==
    IF Len(str) % 2 /= 0 \/ \E i \in 1..Len(str) : HexVal(str[i]) < 0
    THEN [err |-> TRUE, bytes |-> <<>>]
    ELSE [err |-> FALSE,
          bytes |-> [i \in 1..(Len(str) \div 2) |->
                        16 * HexVal(str[2 * i - 1]) + HexVal(str[2 * i])]]

GetKeyIVForRegion(regionType, keyDict) ==
    LET keyHex == GetKeyForRegion(keyDict, regionType)
        ivHex == GetIVForRegion(keyDict, regionType)
        fail == [err |-> TRUE, key |-> Nil, iv |-> Nil]
    IN  IF keyHex = <<>> \/ ivHex = <<>> THEN fail
        ELSE LET key == HexDecodeString(keyHex)
                 iv == HexDecodeString(ivHex)
             IN  IF key.err THEN fail
                 ELSE IF iv.err THEN fail
                 ELSE [err |-> FALSE, key |-> key.bytes, iv |-> iv.bytes]

DecryptRegionData(encryptedData, regionType, keyDict) ==
    LET k == GetKeyIVForRegion(regionType, keyDict)
    IN  IF k.err THEN [err |-> TRUE, data |-> Nil]
        ELSE DecryptAESCBC(encryptedData, k.key, k.iv)


----------------------------------------------------------------------------
(* pkg/parser: Stage 1.  fileData is [head, len, at]: the first 48 bytes   *)
(* of the file (fewer when the file is shorter), its length, and for every *)
(* offset where the archive's writer put a region, the region: a          *)
(* ciphertext [kind |-> "ct", pt, key, iv] or the blocks of region 6       *)
(* [kind |-> "blocks", at].                                                *)

UnknownBytes == [kind |-> "none"]

RegionAt(fileData, offset) ==
    IF offset \in DOMAIN fileData.at THEN fileData.at[offset] ELSE UnknownBytes

AsRegion6ToEndOfFile(fileData, offset, regionEnd) ==
    LET obj == RegionAt(fileData, offset)
    IN  [len |-> fileData.len - offset,
         at |-> IF obj.kind = "blocks" THEN obj.at
                ELSE [o \in {} |-> NotAHeader]]

\* fileData[offset:regionEnd] read as the blocks of region 6
AsRegion6(fileData, offset, regionEnd) ==
    LET obj == RegionAt(fileData, offset)
    IN  [len |-> regionEnd - offset,
         at |-> IF obj.kind = "blocks" THEN obj.at
                ELSE [o \in {} |-> NotAHeader]]

\* fileData[offset:regionEnd] read as a ciphertext: the region's own, cut or
\* followed by foreign bytes when the size is not the one it was written with
AsCiphertext(fileData, offset, regionEnd) ==
    LET obj == RegionAt(fileData, offset)
        n == regionEnd - offset
    IN  IF obj.kind = "ct"
        THEN [pt |-> [i \in 1..n |-> IF i <= Len(obj.pt) THEN obj.pt[i] ELSE 255],
              key |-> obj.key, iv |-> obj.iv]
        ELSE [pt |-> [i \in 1..n |-> 255], key |-> <<>>, iv |-> <<>>]

\* a nil *RegionHeader
NilRegion == [nil |-> TRUE, header |-> [RegionType |-> 0, RegionSize |-> 0]]

NoWrite == [name |-> "", data |-> <<>>]

\* returns what the code returns (nextOffset, nextRegion, err), whether the
\* runtime panicked, and the file it wrote into outputDir
extractRegion(fileData, regionHeader, offset, keyDict) ==
    LET fail == [err |-> TRUE, panic |-> FALSE, nextOffset |-> 0,
                 nextRegion |-> NilRegion, write |-> NoWrite]
        crash == [err |-> FALSE, panic |-> TRUE, nextOffset |-> 0,
                  nextRegion |-> NilRegion, write |-> NoWrite]
        regionName == RegionName(regionHeader.RegionType)
        regionEnd == offset + regionHeader.RegionSize
    IN  IF regionEnd > fileData.len THEN fail
        ELSE IF ~SliceInRange(offset, regionEnd, fileData.len) THEN crash
        ELSE IF regionHeader.RegionType = 6
        THEN [err |-> FALSE, panic |-> FALSE, nextOffset |-> -1,
              nextRegion |-> NilRegion,
              write |-> [name |-> "region6block.bin",
                         data |-> AsRegion6(fileData, offset, regionEnd)]]
        ELSE
        Only({
            IF d.err THEN fail
            ELSE IF Len(d.data) < 40 THEN fail
            ELSE
            Only({
                LET dataOffset == 40
                    dataEnd == dataOffset + blockHeader.RealSize
                IN  IF blockHeader.err THEN fail
                    ELSE IF dataEnd > Len(d.data) THEN fail
                    ELSE IF ~SliceInRange(dataOffset, dataEnd, Len(d.data)) THEN crash
                    ELSE
                    LET w == [name |-> IF regionHeader.RegionType = 4
                                       THEN regionName \o ".bin"
                                       ELSE regionName \o ".xml",
                              data |-> SubSeq(d.data, dataOffset + 1, dataEnd)]
                    IN  IF blockHeader.NextHeader.RegionSize /= 0
                        THEN [err |-> FALSE, panic |-> FALSE,
                              nextOffset |-> offset + regionHeader.RegionSize,
                              nextRegion |-> [nil |-> FALSE,
                                              header |-> blockHeader.NextHeader],
                              write |-> w]
                        ELSE [err |-> FALSE, panic |-> FALSE, nextOffset |-> -1,
                              nextRegion |-> NilRegion, write |-> w] :
                blockHeader \in {ParseRegionBlockHeader(d.data)} }) :
            d \in {DecryptRegionData(AsCiphertext(fileData, offset, regionEnd),
                                     regionHeader.RegionType, keyDict)} })


----------------------------------------------------------------------------
(* pkg/extractor: the per-file block pipeline *)

U64Less(a, b) == IF (a < 0) = (b < 0) THEN a < b ELSE b < 0

\* One iteration body shared by the loops of processFileSequential and
\* processSegment: extract the key, decrypt the block, decompress it.  used
\* records the call: the offset, the key index and, when the block was
\* decrypted, the IV handed to DecryptAESCBC.
processBlock(task, currentOffset, keyIndex) ==
    LET call(iv) == [Offset |-> currentOffset, KeyIndex |-> keyIndex, IV |-> iv]
        fail(m) == [err |-> TRUE, panic |-> FALSE, Message |-> m,
                    nextOffset |-> 0, data |-> <<>>, used |-> call(<<>>)]
        crash == [err |-> FALSE, panic |-> TRUE, Message |-> "panic",
                  nextOffset |-> 0, data |-> <<>>, used |-> call(<<>>)]
    IN  Only({
            IF k.panic THEN crash
            ELSE IF k.err THEN fail("failed to extract key")
            ELSE
            Only({
                IF d.panic THEN crash
                ELSE IF d.err THEN fail("decryption failed")
                ELSE
                Only({ IF z.err
                       THEN [fail("decompression failed") EXCEPT !.used = call(d.iv)]
                       ELSE [err |-> FALSE, panic |-> FALSE, Message |-> "",
                             nextOffset |-> d.nextOffset, data |-> z.data,
                             used |-> call(d.iv)] :
                       z \in {decompressLZMA2(d.data)} }) :
                d \in {DecryptNTEncodeBlock(task.Region6Data, currentOffset,
                                            k.key)} }) :
            k \in {ExtractKeyFromKeyMap(task.KeyMapData, keyIndex)} })

\* the loop `for currentOffset < endOffset` of processFileSequential
RECURSIVE SequentialLoop(_, _, _, _, _)
SequentialLoop(task, currentOffset, endOffset, blockIndex, fileData) ==
    IF ~(currentOffset < endOffset)
    THEN [err |-> FALSE, panic |-> FALSE, Message |-> "", data |-> fileData,
          calls |-> <<>>]
    ELSE Only({
             IF b.panic \/ b.err
             THEN [err |-> b.err, panic |-> b.panic, Message |-> b.Message,
                   data |-> <<>>, calls |-> <<b.used>>]
             ELSE Only({ [rest EXCEPT !.calls = <<b.used>> \o @] :
                         rest \in {SequentialLoop(task, b.nextOffset, endOffset,
                                       blockIndex + 1, fileData \o b.data)} }) :
             b \in {processBlock(task, currentOffset,
                                 task.FileInfo.KeyIndex + blockIndex)} })

\* What a file task returns: the FileResult (FileName, Success, Message),
\* whether the runtime panicked, and what it passed to os.WriteFile (wrote,
\* data).  Both paths end with the same verify-then-write statements.
FileFailure(task, m) ==
    [FileName |-> task.FileInfo.Name, Success |-> FALSE, Message |-> m,
     panic |-> FALSE, wrote |-> FALSE, data |-> <<>>]

FilePanic(task) ==
    [FileName |-> task.FileInfo.Name, Success |-> FALSE, Message |-> "panic",
     panic |-> TRUE, wrote |-> FALSE, data |-> <<>>]

VerifyAndWrite(task, finalData, okMessage) ==
    Only({ IF ~verifyHash(data, task.FileInfo.FileSha256Hash)
           THEN FileFailure(task, "hash verification failed")
           ELSE [FileName |-> task.FileInfo.Name, Success |-> TRUE,
                 Message |-> okMessage, panic |-> FALSE, wrote |-> TRUE,
                 data |-> data] :
           data \in {finalData} })

processFileSequential(task) ==
    LET file == task.FileInfo
        currentOffset == file.Offset
        endOffset == currentOffset + file.Length
    IN  Only({ IF run.panic THEN FilePanic(task)
               ELSE IF run.err THEN FileFailure(task, run.Message)
               ELSE VerifyAndWrite(task, run.data, "OK") :
               run \in {SequentialLoop(task, currentOffset, endOffset, 0, <<>>)} })

----------------------------------------------------------------------------
(* pkg/extractor: the segmenter *)

\* Step 1 of splitFileIntoSegments: scan all block boundaries
RECURSIVE ScanBoundaries(_, _, _, _, _, _)
ScanBoundaries(task, currentOffset, offsetEnd, blockIndex, accumulatedSize, boundaries) ==
    LET stop == [panic |-> FALSE, boundaries |-> boundaries,
                 accumulatedSize |-> accumulatedSize]
    IN  IF ~(currentOffset < offsetEnd) THEN stop
        ELSE IF currentOffset + 112 > task.Region6Data.len THEN stop
        ELSE IF ~SliceInRange(currentOffset, currentOffset + 112,
                              task.Region6Data.len)
        THEN [panic |-> TRUE, boundaries |-> boundaries,
              accumulatedSize |-> accumulatedSize]
        ELSE
        Only({
            IF parsed.err THEN stop
            ELSE ScanBoundaries(task,
                     here + 112 + parsed.header.OriginalSize,
                     offsetEnd, blockIndex + 1,
                     size + parsed.header.ProcessedSize,
                     found \o <<[Offset |-> here, BlockIndex |-> blockIndex,
                                 AccumulatedSize |-> size]>>) :
            parsed \in {ParseNTEncodeHeader(
                            HeaderSlice(task.Region6Data, currentOffset,
                                        currentOffset + 112))},
            here \in {currentOffset}, size \in {accumulatedSize},
            found \in {boundaries} })

RECURSIVE DivideBlocksNoLimit(_, _, _, _, _, _, _)
DivideBlocksNoLimit(boundaries, offsetEnd, numSegments, targetSizePerSegment, i, segmentStartIdx, segments) ==
    LET totalBlocks == Len(boundaries)
    IN  IF ~(i < totalBlocks) THEN segments
        ELSE
        LET currentSegmentSize ==
                IF segmentStartIdx < totalBlocks
                THEN boundaries[i + 1].AccumulatedSize
                       - boundaries[segmentStartIdx + 1].AccumulatedSize
                ELSE 0
            shouldEndSegment ==
                /\ Len(segments) < numSegments
                /\ ~U64Less(currentSegmentSize, targetSizePerSegment)
        IN  IF shouldEndSegment \/ i = totalBlocks - 1
            THEN LET endOffset ==
                         IF i = totalBlocks - 1 THEN offsetEnd
                         ELSE IF i + 1 < totalBlocks
                         THEN boundaries[i + 2].Offset ELSE offsetEnd
                     numBlocks ==
                         IF i = totalBlocks - 1 THEN totalBlocks - segmentStartIdx
                         ELSE i - segmentStartIdx + 1
                 IN  DivideBlocksNoLimit(boundaries, offsetEnd, numSegments,
                         targetSizePerSegment, i + 1, i + 1,
                         Append(segments,
                             [StartOffset |-> boundaries[segmentStartIdx + 1].Offset,
                              EndOffset |-> endOffset,
                              StartBlockIndex |->
                                  boundaries[segmentStartIdx + 1].BlockIndex,
                              NumBlocks |-> numBlocks]))
            ELSE DivideBlocksNoLimit(boundaries, offsetEnd, numSegments,
                     targetSizePerSegment, i + 1, segmentStartIdx, segments)

\* Step 2: the loop `for i := 0; i < totalBlocks; i++` (i and segmentStartIdx
\* count from 0 as in the code)
RECURSIVE DivideBlocks(_, _, _, _, _, _, _)
DivideBlocks(boundaries, offsetEnd, numSegments, targetSizePerSegment, i, segmentStartIdx, segments) ==
    LET totalBlocks == Len(boundaries)
    IN  IF ~(i < totalBlocks) THEN segments
        ELSE
        LET currentSegmentSize ==
                IF segmentStartIdx < totalBlocks
                THEN boundaries[i + 1].AccumulatedSize
                       - boundaries[segmentStartIdx + 1].AccumulatedSize
                ELSE 0
            shouldEndSegment ==
                /\ Len(segments) < numSegments - 1
                /\ ~U64Less(currentSegmentSize, targetSizePerSegment)
        IN  IF shouldEndSegment \/ i = totalBlocks - 1
            THEN LET endOffset ==
                         IF i = totalBlocks - 1 THEN offsetEnd
                         ELSE IF i + 1 < totalBlocks
                         THEN boundaries[i + 2].Offset ELSE offsetEnd
                     numBlocks ==
                         IF i = totalBlocks - 1 THEN totalBlocks - segmentStartIdx
                         ELSE i - segmentStartIdx + 1
                 IN  DivideBlocks(boundaries, offsetEnd, numSegments,
                         targetSizePerSegment, i + 1, i + 1,
                         Append(segments,
                             [StartOffset |-> boundaries[segmentStartIdx + 1].Offset,
                              EndOffset |-> endOffset,
                              StartBlockIndex |->
                                  boundaries[segmentStartIdx + 1].BlockIndex,
                              NumBlocks |-> numBlocks]))
            ELSE DivideBlocks(boundaries, offsetEnd, numSegments,
                     targetSizePerSegment, i + 1, segmentStartIdx, segments)

splitFileIntoSegmentsRefusingFewBlocks(task, numSegments) ==
    LET file == task.FileInfo
        offsetStart == file.Offset
        offsetEnd == offsetStart + file.Length
    IN  Only({
            IF scan.panic THEN [err |-> FALSE, panic |-> TRUE, segments |-> <<>>]
            ELSE IF Len(scan.boundaries) = 0 \/ Len(scan.boundaries) < numSegments
            THEN [err |-> TRUE, panic |-> FALSE, segments |-> <<>>]
            ELSE [err |-> FALSE, panic |-> FALSE,
                  segments |-> DivideBlocks(scan.boundaries, offsetEnd, numSegments,
                                   scan.accumulatedSize \div numSegments, 0, 0,
                                   <<>>)] :
            scan \in {ScanBoundaries(task, offsetStart, offsetEnd, 0, 0, <<>>)} })

\* the accumulated sizes of the modelled archives are below 2^63, where the
\* unsigned division of the code is the integer division
splitFileIntoSegments(task, numSegments) ==
    LET file == task.FileInfo
        offsetStart == file.Offset
        offsetEnd == offsetStart + file.Length
    IN  Only({
            IF scan.panic THEN [err |-> FALSE, panic |-> TRUE, segments |-> <<>>]
            ELSE IF Len(scan.boundaries) = 0
            THEN [err |-> TRUE, panic |-> FALSE, segments |-> <<>>]
            ELSE [err |-> FALSE, panic |-> FALSE,
                  segments |-> DivideBlocks(scan.boundaries, offsetEnd, numSegments,
                                   scan.accumulatedSize \div numSegments, 0, 0,
                                   <<>>)] :
            scan \in {ScanBoundaries(task, offsetStart, offsetEnd, 0, 0, <<>>)} })

RECURSIVE SegmentLoopCountFromZero(_, _, _, _, _)
SegmentLoopCountFromZero(task, segment, currentOffset, blockCount, segmentData) ==
    IF ~(currentOffset < segment.EndOffset /\ blockCount < segment.NumBlocks)
    THEN [err |-> FALSE, panic |-> FALSE, Message |-> "", data |-> segmentData,
          calls |-> <<>>]
    ELSE Only({
             IF b.panic \/ b.err
             THEN [err |-> b.err, panic |-> b.panic, Message |-> b.Message,
                   data |-> <<>>, calls |-> <<b.used>>]
             ELSE Only({ [rest EXCEPT !.calls = <<b.used>> \o @] :
                         rest \in {SegmentLoopCountFromZero(task, segment,
                                       b.nextOffset, blockCount + 1,
                                       segmentData \o b.data)} }) :
             b \in {processBlock(task, currentOffset,
                        task.FileInfo.KeyIndex + blockCount)} })

\* the loop of processSegment
RECURSIVE SegmentLoop(_, _, _, _, _)
SegmentLoop(task, segment, currentOffset, blockCount, segmentData) ==
    IF ~(currentOffset < segment.EndOffset /\ blockCount < segment.NumBlocks)
    THEN [err |-> FALSE, panic |-> FALSE, Message |-> "", data |-> segmentData,
          calls |-> <<>>]
    ELSE Only({
             IF b.panic \/ b.err
             THEN [err |-> b.err, panic |-> b.panic, Message |-> b.Message,
                   data |-> <<>>, calls |-> <<b.used>>]
             ELSE Only({ [rest EXCEPT !.calls = <<b.used>> \o @] :
                         rest \in {SegmentLoop(task, segment, b.nextOffset,
                                       blockCount + 1, segmentData \o b.data)} }) :
             b \in {processBlock(task, currentOffset,
                        task.FileInfo.KeyIndex + segment.StartBlockIndex
                          + blockCount)} })

processSegment(task, segment) ==
    SegmentLoop(task, segment, segment.StartOffset, 0, <<>>)

\* `for _, segData := range segmentResults { fileData.Write(segData) }`
RECURSIVE ConcatSegments(_, _)
ConcatSegments(segmentResults, i) ==
    IF i > Len(segmentResults) THEN <<>>
    ELSE segmentResults[i] \o ConcatSegments(segmentResults, i + 1)

\* processLargeFileSegmented after wg.Wait(): errs is the content of the
\* errors channel
JoinSegments(task, segmentResults, errs) ==
    IF Len(errs) > 0
    THEN FileFailure(task, "segment processing failed")
    ELSE VerifyAndWrite(task, ConcatSegments(segmentResults, 1), "OK (segmented)")


\* processLargeFileSegmented as one step: every segment goroutine runs to
\* its end before the join (the goroutines are stepped one by one in the
\* one-file harness below)
processLargeFileSegmented(task) ==
    Only({
        IF split.panic THEN FilePanic(task)
        ELSE IF split.err THEN FileFailure(task, "failed to split file")
        ELSE
        Only({
            LET n == Len(r)
                failed == { i \in 1..n : r[i].err }
            IN  IF \E i \in 1..n : r[i].panic THEN FilePanic(task)
                ELSE JoinSegments(task, [i \in 1..n |-> r[i].data],
                                  IF failed = {} THEN <<>> ELSE <<"segment">>) :
            r \in {[i \in 1..Len(split.segments) |->
                       processSegment(task, split.segments[i])] \o <<>>} }) :
        split \in {splitFileIntoSegments(task, task.NumSegments)} })

calculateOptimalSegmentsLowerBucket(fileSize) ==
    LET MB == 1024
        GB == 1024 * MB
    IN  IF fileSize <= 500 * MB THEN 1
        ELSE IF fileSize <= 1 * GB THEN 4
        ELSE IF fileSize <= 2 * GB THEN 8
        ELSE IF fileSize <= 4 * GB THEN 12
        ELSE 16

\* calculateOptimalSegments; fileSize is held in KiB (rounded down), the
\* thresholds being multiples of 1 MiB
calculateOptimalSegments(fileSize) ==
    LET MB == 1024
        GB == 1024 * MB
    IN  IF fileSize < 500 * MB THEN 1
        ELSE IF fileSize < 1 * GB THEN 4
        ELSE IF fileSize < 2 * GB THEN 8
        ELSE IF fileSize < 4 * GB THEN 12
        ELSE 16

\* the FileTask ExtractFiles makes of a FileIndex entry
NewFileTask(file, region6Data, keyMapData, dir) ==
    LET numSegments == calculateOptimalSegments(file.PartitionLength)
    IN  [FileInfo |-> file,
         Region6Data |-> region6Data,
         KeyMapData |-> keyMapData,
         OutputDir |-> dir,
         UseSegmented |-> numSegments > 1,
         NumSegments |-> numSegments]

----------------------------------------------------------------------------
(* Paths and the file system.  A path is the sequence of its components    *)
(* from the working directory; fsDirs is the set of directories made,      *)
(* fsFiles maps the path of every file to its content.                     *)

\* filepath.Clean of base/name, name given as its components split at "/"
RECURSIVE PathJoin(_, _)
PathJoin(base, name) ==
    IF name = <<>> THEN base
    ELSE LET c == Head(name)
         IN  IF c = "" \/ c = "." THEN PathJoin(base, Tail(name))
             ELSE IF c = ".."
             THEN IF base /= <<>> /\ base[Len(base)] /= ".."
                  THEN PathJoin(SubSeq(base, 1, Len(base) - 1), Tail(name))
                  ELSE PathJoin(Append(base, ".."), Tail(name))
             ELSE PathJoin(Append(base, c), Tail(name))

\* filepath.Dir
PathDir(path) == IF path = <<>> THEN <<>> ELSE SubSeq(path, 1, Len(path) - 1)

Prefixes(path) == { SubSeq(path, 1, k) : k \in 1..Len(path) }

IsUnder(path, dir) ==
    Len(path) >= Len(dir) /\ SubSeq(path, 1, Len(dir)) = dir

\* os.MkdirAll fails when a component of the path is a file
MkdirAllFails(files, path) == \E q \in Prefixes(path) : q \in DOMAIN files

MkdirAll(dirs, path) == dirs \cup Prefixes(path)

\* os.WriteFile fails on a directory
WriteFileFails(dirs, path) == path = <<>> \/ path \in dirs

WriteFile(files, path, data) ==
    [q \in DOMAIN files \cup {path} |-> IF q = path THEN data ELSE files[q]]

RemoveFile(files, path) == [q \in DOMAIN files \ {path} |-> files[q]]

\* os.Rename of a file fails when the destination is a directory
RenameFails(dirs, dst) == dst \in dirs

RemoveAllDirs(dirs, root) == { d \in dirs : ~IsUnder(d, root) }

RemoveAllFiles(files, root) ==
    [q \in { f \in DOMAIN files : ~IsUnder(f, root) } |-> files[q]]

tempDir == <<".temp">>

outputDir == <<"out">>

\* the body of the loop of worker: the task's directory, its blocks, its file
runFileTask(task, dirs, files) ==
    LET file == task.FileInfo
        outputPath == PathJoin(task.OutputDir, file.Name)
        parent == PathDir(outputPath)
    IN  IF MkdirAllFails(files, parent)
        THEN [result |-> FileFailure(task, "failed to create directory"),
              dirs |-> dirs, files |-> files]
        ELSE
        Only({
            LET dirs1 == MkdirAll(dirs, parent)
            IN  IF ~r.wrote THEN [result |-> r, dirs |-> dirs1, files |-> files]
                ELSE IF WriteFileFails(dirs1, outputPath)
                THEN [result |-> FileFailure(task, "failed to write file"),
                      dirs |-> dirs1, files |-> files]
                ELSE [result |-> r, dirs |-> dirs1,
                      files |-> WriteFile(files, outputPath, r.data)] :
            r \in {IF task.UseSegmented THEN processLargeFileSegmented(task)
                   ELSE processFileSequential(task)} })


----------------------------------------------------------------------------
(* The archives of the model: a KeyMap, and a region 6 of three blocks     *)

KeyMapTable == IotaTable(KeyMapLen)

KeyMapFile == [b |-> KeyMapTable, cap |-> ReadFileCap(KeyMapLen)]

\* the key the archive's writer took for key index idx: 32 bytes read
\* cyclically from byte (idx*32) mod len
WrapKey(table, idx) ==
    [i \in 1..32 |-> table[((idx * 32 + i - 1) % Len(table)) + 1]]

Lzma2Stream(chunk) == <<1, 0, Len(chunk) - 1>> \o chunk \o <<0>>

\* PKCS#7 padding (pkcs) or zero padding to the next multiple of 16
PadTo16(body, pkcs) ==
    LET r == 16 - (Len(body) % 16)
    IN  body \o [i \in 1..r |-> IF pkcs THEN r ELSE 0]

\* the key index of the first block of region 6
BaseKeyIndex == 1

BlockChunk(j) ==
    CASE j = 1 -> <<21, 22, 23, 24, 25, 26, 27, 28, 29, 30, 31, 32>>
      [] j = 2 -> <<11>>
      [] OTHER -> <<40 + j, 50 + j>>

\* badmagic: the magic is not NTENCODE; tampered: the ciphertext is not the
\* one the key decrypts; huge: OriginalSize is 2^64-16; zerosize: the header
\* declares ProcessedSize 0
Defects == {"badmagic", "tampered", "huge", "zerosize"}

\* block j of region 6 as its writer made it; defect damages it afterwards
MkBlock(j, defect) ==
    LET pt == PadTo16(NTEncodeMagic \o Zeros(104) \o Lzma2Stream(BlockChunk(j)),
                      j /= 3)
        iv == [i \in 1..16 |-> 10 * j + i]
    IN  [Magic |-> IF defect = "badmagic" THEN Zeros(8) ELSE NTEncodeMagic,
         ProcessedSize |-> IF defect = "zerosize" THEN 0 ELSE Len(BlockChunk(j)),
         OriginalSize |-> IF defect = "huge" THEN -16 ELSE Len(pt),
         IV |-> iv,
         ct |-> [pt |-> pt,
                 key |-> IF defect = "tampered" THEN Zeros(32)
                         ELSE WrapKey(KeyMapTable, BaseKeyIndex + j - 1),
                 iv |-> iv]]

Region6Blocks == 3

\* the offset of block j (Region6Blocks+1: the end of the last block)
RECURSIVE BlockOffset(_)
BlockOffset(j) ==
    IF j = 1 THEN 0
    ELSE BlockOffset(j - 1) + NTEncodeHeaderSize + Len(MkBlock(j - 1, "none").ct.pt)

\* region 6 with the blocks of defectAt as defect says and its last cut bytes
\* missing
MkRegion6(defectAt, defect, cut) ==
    [len |-> BlockOffset(Region6Blocks + 1) - cut,
     at |-> [o \in { BlockOffset(j) : j \in 1..Region6Blocks } |->
                LET j == CHOOSE x \in 1..Region6Blocks : BlockOffset(x) = o
                IN  MkBlock(j, IF j \in defectAt THEN defect ELSE "none")]]

GoodRegion6 == MkRegion6({}, "none", 0)

Region6Variants ==
    {GoodRegion6}
      \cup { MkRegion6({j}, d, 0) :
                j \in 1..Region6Blocks, d \in {"badmagic", "tampered", "huge"} }
      \cup { MkRegion6({}, "none", cut) : cut \in {8, 130} }
      \cup { MkRegion6(1..Region6Blocks, "zerosize", 0) }

RECURSIVE ChunksOf(_, _)
ChunksOf(first, n) ==
    IF n = 0 \/ first > Region6Blocks THEN <<>>
    ELSE BlockChunk(first) \o ChunksOf(first + 1, n - 1)

ToUpper(c) == IF c >= 97 /\ c <= 122 THEN c - 32 ELSE c

\* the FileSha256Hash attribute of a file made of n blocks from block first
HashAttr(first, n, upper) ==
    Only({ IF upper THEN [i \in 1..Len(h) |-> ToUpper(h[i])] \o <<>> ELSE h :
           h \in {HexEncodeToString(Sha256Sum(ChunksOf(first, n)))} })

\* PartitionLength is held in KiB (rounded down): the code compares it only
\* with multiples of 1 MiB
MkFileInfo(name, first, last, keyIndex, hashBlocks, upper, partitionLength) ==
    [Name |-> name,
     FileSha256Hash |-> HashAttr(first, hashBlocks, upper),
     KeyIndex |-> keyIndex,
     PartitionLength |-> partitionLength,
     Offset |-> BlockOffset(first),
     Length |-> BlockOffset(last + 1) - BlockOffset(first)]

----------------------------------------------------------------------------
(* The archives of the whole run                                           *)

\* FileIndex.xml is held as "<", one byte per <file> element, ">"; the
\* elements of the model:
FileElement(id) ==
    CASE id = 1 -> MkFileInfo(<<"a.img">>, 1, 1, BaseKeyIndex, 1, FALSE, 0)
      [] id = 2 -> MkFileInfo(<<"sub", "b.img">>, 2, 3, BaseKeyIndex + 1, 2, TRUE,
                              500 * 1024)
      [] id = 3 -> MkFileInfo(<<"c.img">>, 3, 3, BaseKeyIndex + 2, 0, FALSE, 0)
      [] id = 4 -> MkFileInfo(<<"..", "evil.img">>, 1, 1, BaseKeyIndex, 1, FALSE, 0)
      [] id = 5 -> MkFileInfo(<<"", "abs", "f.img">>, 2, 2, BaseKeyIndex + 1, 1,
                              FALSE, 0)
      [] id = 6 -> MkFileInfo(<<"n.img">>, 1, 1, -1, 1, FALSE, 0)
      [] id = 7 -> MkFileInfo(<<"Patch.xml", "x.img">>, 1, 1, BaseKeyIndex, 1,
                              FALSE, 0)
      [] id = 8 -> MkFileInfo(<<"m.img">>, 1, 1, BaseKeyIndex, 1, FALSE, 0)
      [] OTHER  -> MkFileInfo(<<"a.img">>, 2, 2, BaseKeyIndex + 1, 1, FALSE, 0)

FileElements == 9

\* the attributes of FileInfo a <file> element does not carry: xml.Unmarshal
\* leaves their fields at the zero value
MissingAttributes(id) ==
    IF id = 8 THEN {"PartitionSha256Hash", "PartitionLength"} ELSE {}

FileIndexXml(ids) == <<60>> \o ids \o <<62>>

\* xml.Unmarshal into FileIndex
xmlUnmarshal(data) ==
    IF /\ Len(data) >= 2
       /\ data[1] = 60
       /\ data[Len(data)] = 62
       /\ \A i \in 2..(Len(data) - 1) : data[i] \in 1..FileElements
    THEN [err |-> FALSE,
          Files |-> [i \in 1..(Len(data) - 2) |-> FileElement(data[i + 1])]
                      \o <<>>]
    ELSE [err |-> TRUE, Files |-> <<>>]

ParseFileIndex(files, fileIndexPath) ==
    IF fileIndexPath \notin DOMAIN files THEN [err |-> TRUE, Files |-> <<>>]
    ELSE xmlUnmarshal(files[fileIndexPath])

MetaPayload(t, doc) ==
    CASE t = 4 -> KeyMapTable
      [] t = 5 -> doc
      [] OTHER -> <<60, 100 + t, 62>>

PaddedLen(n) == 16 * ((n \div 16) + 1)

RegSize(chain, i, doc) ==
    IF chain[i] = 6 THEN GoodRegion6.len
    ELSE PaddedLen(RegionBlockHeaderSize + Len(MetaPayload(chain[i], doc)))

RECURSIVE RegOffset(_, _, _)
RegOffset(chain, i, doc) ==
    IF i = 1 THEN NTPIHeaderSize
    ELSE RegOffset(chain, i - 1, doc) + RegSize(chain, i - 1, doc)

NoDefect == [at |-> 0, kind |-> "none"]

\* the RegionHeader the archive declares for region i of the chain
DeclaredHeader(chain, i, doc, defect) ==
    IF i > Len(chain) THEN [RegionType |-> 0, RegionSize |-> 0]
    ELSE LET size == RegSize(chain, i, doc)
             hit == defect.at = i
         IN  [RegionType |-> IF hit /\ defect.kind = "type7" THEN 7 ELSE chain[i],
              RegionSize |->
                  IF hit /\ defect.kind = "oob" THEN size + 4096
                  ELSE IF hit /\ defect.kind = "neg" THEN -16
                  ELSE IF hit /\ defect.kind = "short16" THEN 16
                  ELSE IF hit /\ defect.kind = "odd" THEN size - 8
                  ELSE IF hit /\ defect.kind = "empty6" THEN 0
                  ELSE size]

HeaderBytes(h) == LE64(h.RegionType) \o LE64(h.RegionSize)

MkMetaRegion(chain, i, doc, defect) ==
    LET payload == MetaPayload(chain[i], doc)
        hit == defect.at = i
        realSize == IF hit /\ defect.kind = "realbig" THEN 4096
                    ELSE IF hit /\ defect.kind = "realneg" THEN -16
                    ELSE Len(payload)
        k == GetKeyIVForRegion(chain[i], AESDict_V1_3_0)
    IN  [kind |-> "ct",
         pt |-> PadTo16(HeaderBytes([RegionType |-> chain[i],
                                     RegionSize |-> RegSize(chain, i, doc)])
                          \o HeaderBytes(DeclaredHeader(chain, i + 1, doc, defect))
                          \o LE64(realSize) \o payload, TRUE),
         key |-> k.key, iv |-> k.iv]

MkArchive(chain, doc, defect, version) ==
    LET full == (IF defect.kind = "badmagic" THEN NTPXMagic ELSE NTPIMagic)
                   \o Zeros(4)
                   \o LE64(version[1]) \o LE64(version[2]) \o LE64(version[3])
                   \o HeaderBytes(DeclaredHeader(chain, 1, doc, defect))
        short == defect.kind = "shortfile"
        \* the 48-byte archive whose first region is {type 6, size 0}
        bare == defect.kind = "empty6" /\ chain = <<6>>
    IN  [head |-> IF short THEN SubSeq(full, 1, 20) ELSE full,
         len |-> IF short THEN 20
                 ELSE IF bare THEN NTPIHeaderSize
                 ELSE RegOffset(chain, Len(chain) + 1, doc),
         at |-> IF short \/ bare THEN [o \in {} |-> UnknownBytes]
                ELSE [o \in { RegOffset(chain, i, doc) : i \in 1..Len(chain) } |->
                        LET i == CHOOSE x \in 1..Len(chain) :
                                     RegOffset(chain, x, doc) = o
                        IN  IF chain[i] = 6
                            THEN [kind |-> "blocks", at |-> GoodRegion6.at]
                            ELSE MkMetaRegion(chain, i, doc, defect)]]

FullChain == <<1, 2, 3, 4, 5, 6>>

\* <<4, 5, 6, 2>>: a region lies after region 6
Chains == {FullChain, <<4, 5, 6>>, <<2, 4, 5, 6>>, <<4, 5>>, <<6>>, <<4, 5, 6, 2>>}

ArchiveDefects(chain) ==
    {NoDefect, [at |-> 0, kind |-> "badmagic"], [at |-> 0, kind |-> "shortfile"]}
      \cup { [at |-> i, kind |-> k] :
               i \in 1..Len(chain),
               k \in {"oob", "neg", "short16", "odd", "type7", "realbig",
                      "realneg"} }
      \cup { [at |-> i, kind |-> "empty6"] : i \in { j \in 1..Len(chain) : chain[j] = 6 } }

\* the lists of <file> elements of the model: up to MaxFiles distinct elements
MaxFiles == 2

RECURSIVE IdLists(_)
IdLists(n) ==
    IF n = 0 THEN {<<>>}
    ELSE LET shorter == IdLists(n - 1)
         IN  shorter \cup
               { Append(l, id) : l \in { x \in shorter : Len(x) = n - 1 },
                                 id \in 1..FileElements }

DocIds ==
    { l \in IdLists(MaxFiles) : \A i, j \in 1..Len(l) : i /= j => l[i] /= l[j] }
      \cup {<<1, 3, 2>>, <<3, 1, 6>>, <<2, 7, 1>>}


----------------------------------------------------------------------------
(* One-file harness: processFileSequential, then processLargeFileSegmented *)
(* with its segment goroutines, on the same FileTask.                      *)

SegInit ==
    /\ \E region6 \in Region6Variants :
       \E first \in 1..2 : \E last \in 2..Region6Blocks :
       \E keyDelta \in {0, 1} : \E negKey \in BOOLEAN :
       \E hashBlocks \in 0..Region6Blocks : \E upper \in BOOLEAN :
       \E numSegments \in 1..MaxSegments :
          /\ upper => hashBlocks = last - first + 1
          /\ negKey => keyDelta = 0
          /\ curTask = [FileInfo |->
                        MkFileInfo(<<"a.img">>, first, last,
                            IF negKey THEN -1
                            ELSE BaseKeyIndex + first - 1 + keyDelta,
                            hashBlocks, upper, 0),
                     Region6Data |-> region6,
                     KeyMapData |-> KeyMapFile,
                     NumSegments |-> numSegments]
    /\ seqResult = NoRet
    /\ segPc = "start"
    /\ fileSegments = <<>>
    /\ segReturned = <<>>
    /\ segResults = <<>>
    /\ errorsCh = <<>>
    /\ segResult = NoRet
    /\ PureIdle
    /\ RunIdle

SeqRun ==
    /\ segPc = "start"
    /\ seqResult = NoRet
    /\ seqResult' = processFileSequential(curTask)
    /\ UNCHANGED <<curTask, segPc, fileSegments, segReturned, segResults, errorsCh,
                   segResult, notSeg>>

\* processLargeFileSegmented up to the `go func` loop
SegSplit ==
    /\ segPc = "start"
    /\ seqResult /= NoRet
    /\ \E split \in {splitFileIntoSegments(curTask, curTask.NumSegments)} :
           IF split.panic
           THEN /\ segPc' = "done"
                /\ segResult' = FilePanic(curTask)
                /\ UNCHANGED <<fileSegments, segResults>>
           ELSE IF split.err
           THEN /\ segPc' = "done"
                /\ segResult' = FileFailure(curTask, "failed to split file")
                /\ UNCHANGED <<fileSegments, segResults>>
           ELSE /\ segPc' = "workers"
                /\ fileSegments' = split.segments
                /\ segResults' = [i \in 1..Len(split.segments) |-> <<>>]
                /\ UNCHANGED segResult
    /\ UNCHANGED <<curTask, seqResult, segReturned, errorsCh, notSeg>>

StoreResultInCompletionOrder(segmentResults, returned, idx, data) ==
    [segmentResults EXCEPT ![Len(returned) + 1] = data]

\* segResults[idx] = data
StoreResult(segmentResults, returned, idx, data) ==
    [segmentResults EXCEPT ![idx] = data]

\* the goroutine of segment idx (from 1): processSegment, then the result
\* is stored or the error sent
SegWorker(idx) ==
    /\ segPc = "workers"
    /\ idx \in 1..Len(fileSegments)
    /\ \A k \in 1..Len(segReturned) : segReturned[k] /= idx
    /\ \E r \in {processSegment(curTask, fileSegments[idx])} :
           IF r.panic
           THEN /\ segPc' = "done"
                /\ segResult' = FilePanic(curTask)
                /\ UNCHANGED <<segReturned, segResults, errorsCh>>
           ELSE /\ segReturned' = Append(segReturned, idx)
                /\ IF r.err
                   THEN /\ errorsCh' = Append(errorsCh, [idx |-> idx - 1,
                                                         Message |-> r.Message])
                        /\ UNCHANGED segResults
                   ELSE /\ segResults' =
                               StoreResult(segResults, segReturned, idx, r.data)
                        /\ UNCHANGED errorsCh
                /\ UNCHANGED <<segPc, segResult>>
    /\ UNCHANGED <<curTask, seqResult, fileSegments, notSeg>>

\* processLargeFileSegmented from wg.Wait() on
SegJoin ==
    /\ segPc = "workers"
    /\ Len(segReturned) = Len(fileSegments)
    /\ segPc' = "done"
    /\ segResult' = JoinSegments(curTask, segResults, errorsCh)
    /\ UNCHANGED <<curTask, seqResult, fileSegments, segReturned, segResults,
                   errorsCh, notSeg>>

SegNext ==
    \/ SeqRun
    \/ SegSplit
    \/ \E idx \in 1..MaxSegments : SegWorker(idx)
    \/ SegJoin

SpecSeg == SegInit /\ [][SegNext]_vars


\* what the block loop of processFileSequential leaves for the hash step
SequentialOutcome ==
    Only({ [failed |-> r.err \/ r.panic, bytes |-> r.data] :
           r \in {SequentialLoop(curTask, curTask.FileInfo.Offset,
                      curTask.FileInfo.Offset + curTask.FileInfo.Length,
                      0, <<>>)} })

\* every segment goroutine has returned
AllSegmentsReturned ==
    segPc = "workers" /\ Len(segReturned) = Len(fileSegments)

\* what split + processSegment + concatenation leave for the hash step
SegmentedOutcome ==
    IF Len(errorsCh) > 0
    THEN [failed |-> TRUE, bytes |-> <<>>]
    ELSE [failed |-> FALSE, bytes |-> ConcatSegments(segResults, 1)]

\* C1: for every entry and every segment count, splitting the entry,
\* running processSegment on every segment and concatenating in segment
\* order gives the bytes processFileSequential accumulates for the entry
\* (and fails when it fails).
C1_SegmenterEquivalence ==
    /\ AllSegmentsReturned => SegmentedOutcome = SequentialOutcome
    /\ (segPc = "done" /\ segResult.Message = "failed to split file")
          => SequentialOutcome.failed

\* the block the entry starts at, and the bytes of the blocks in the segments
FirstBlock == CHOOSE j \in 1..Region6Blocks : BlockOffset(j) = curTask.FileInfo.Offset

RECURSIVE SumBlockCount(_, _)
SumBlockCount(segs, i) ==
    IF i > Len(segs) THEN 0 ELSE segs[i].NumBlocks + SumBlockCount(segs, i + 1)

\* C2: whatever the order in which the segment goroutines finish, the
\* concatenation holds segment i before segment i+1 and, inside a segment,
\* block j before block j+1: it is the chunks of the blocks in archive order.
C2_SegmentOrder ==
    (AllSegmentsReturned /\ Len(errorsCh) = 0)
        => ConcatSegments(segResults, 1)
             = ChunksOf(FirstBlock, SumBlockCount(fileSegments, 1))

\* two segments or more, the last one finished first, no error
C2_Witness ==
    /\ AllSegmentsReturned
    /\ Len(errorsCh) = 0
    /\ Len(fileSegments) >= 2
    /\ segReturned[1] = Len(fileSegments)
    /\ \E i \in 1..Len(fileSegments) : fileSegments[i].NumBlocks >= 2

\* every block position of the entry, walked from Offset to Offset+Length,
\* decrypts and decompresses, and the hash of the whole equals the attribute
EntryVerified(r) ==
    /\ ~SequentialOutcome.failed
    /\ r.data = SequentialOutcome.bytes
    /\ verifyHash(r.data, curTask.FileInfo.FileSha256Hash)

WriteRule(r) == IF r.wrote THEN EntryVerified(r) ELSE ~r.Success

\* C3: in the sequential and in the segmented path the file is written only
\* after every block of the entry decoded without error and the SHA-256 of
\* the whole equals the entry's hash (hex, case-insensitive); otherwise the
\* task reports failure and writes nothing.
C3_WriteOnlyVerified ==
    /\ (seqResult /= NoRet) => WriteRule(seqResult)
    /\ (segPc = "done") => WriteRule(segResult)

C3_SequentialOnly == (seqResult /= NoRet) => WriteRule(seqResult)


----------------------------------------------------------------------------
(* The whole run: runExtraction, ParseNTPIFile, ExtractFiles and the pool  *)

MaxWorkers == 2

\* the registry's version, one with its major.minor, and others
ArchiveVersions == {<<1, 3, 0>>, <<1, 3, 7>>, <<1, 30, 0>>, <<13, 0, 0>>, <<2, 0, 0>>}

StaleScratch == (tempDir \o <<"Patch.xml">>) :> <<60, 111, 108, 100, 62>>

\* the process is started on an archive, with its flags, in a working
\* directory that may hold the scratch directory of an earlier run
RunStart(chain, defect, ids, version, keep, w, stale) ==
    /\ (defect /= NoDefect \/ chain /= FullChain)
          => (Len(ids) <= 1 /\ w = 1)
    /\ (stale \/ version /= <<1, 3, 0>> \/ w = 0)
          => (chain = FullChain /\ defect = NoDefect /\ ids = <<1>>)
    /\ inputFile = MkArchive(chain, FileIndexXml(ids), defect, version)
    /\ keepTemp = keep
    /\ numWorkers = w
    /\ fsDirs = IF stale THEN {tempDir} ELSE {}
    /\ fsFiles = IF stale THEN StaleScratch ELSE <<>>

RunInit ==
    /\ \E chain \in Chains : \E defect \in ArchiveDefects(chain) :
       \E ids \in DocIds : \E version \in ArchiveVersions :
       \E keep \in BOOLEAN : \E w \in 0..MaxWorkers : \E stale \in BOOLEAN :
          RunStart(chain, defect, ids, version, keep, w, stale)
    /\ pc = "start"
    /\ exitCode = -1
    /\ walk = NoRet
    /\ tasks = <<>>
    /\ jobs = <<>>
    /\ results = <<>>
    /\ workers = <<>>
    /\ stage1 = "none"
    /\ stage2 = "none"
    /\ PureIdle
    /\ SegIdle

\* runExtraction up to Stage 1: the scratch directory is emptied and made
CreateTempDir ==
    /\ pc = "start"
    /\ fsDirs' = MkdirAll(RemoveAllDirs(fsDirs, tempDir), tempDir)
    /\ fsFiles' = RemoveAllFiles(fsFiles, tempDir)
    /\ pc' = "stage1"
    /\ UNCHANGED <<exitCode, inputFile, keepTemp, numWorkers, walk, tasks, jobs,
                   results, workers, stage1, stage2, notRun>>

\* ParseNTPIFile up to its loop; walk.warned: the warning "Unsupported
\* firmware version, using default keys" was printed
ParseHeader ==
    /\ pc = "stage1"
    /\ \E header \in {ParseNTPIHeader(inputFile.head)} :
           IF header.err
           THEN /\ stage1' = "error"
                /\ exitCode' = 1
                /\ pc' = "exited"
                /\ UNCHANGED <<walk, fsDirs>>
           ELSE /\ \E keyDict \in {GetAESDictForVersion(header.VersionMajor,
                                        header.VersionMinor,
                                        header.VersionPatch)} :
                      walk' = [currentOffset |-> NTPIHeaderSize,
                               currentRegion |-> header.FirstRegion,
                               regionCount |-> 0,
                               keyDict |-> IF keyDict = NilDict
                                           THEN DefaultAESDict ELSE keyDict,
                               warned |-> keyDict = NilDict]
                /\ fsDirs' = MkdirAll(fsDirs, tempDir)
                /\ pc' = "walk"
                /\ UNCHANGED <<stage1, exitCode>>
    /\ UNCHANGED <<inputFile, keepTemp, numWorkers, fsFiles, tasks, jobs, results,
                   workers, stage2, notRun>>

\* the function deferred by runExtraction
DeferredCleanupDirs(dirs) == IF ~keepTemp THEN RemoveAllDirs(dirs, tempDir) ELSE dirs

DeferredCleanupFiles(files) ==
    IF ~keepTemp THEN RemoveAllFiles(files, tempDir) ELSE files

\* one iteration of the loop of ParseNTPIFile.  A panic unwinds the main
\* goroutine: the deferred function of runExtraction runs, then the process
\* dies with status 2.
ExtractRegion ==
    /\ pc = "walk"
    /\ \E r \in {extractRegion(inputFile, walk.currentRegion, walk.currentOffset,
                                walk.keyDict)} :
       LET written == IF r.write = NoWrite THEN fsFiles
                      ELSE WriteFile(fsFiles, Append(tempDir, r.write.name),
                                     r.write.data)
       IN  IF r.panic
           THEN /\ stage1' = "panic"
                /\ exitCode' = 2
                /\ pc' = "exited"
                /\ fsDirs' = DeferredCleanupDirs(fsDirs)
                /\ fsFiles' = DeferredCleanupFiles(fsFiles)
                /\ walk' = [walk EXCEPT !.regionCount = @ + 1]
           ELSE IF r.err
           THEN /\ stage1' = "error"
                /\ exitCode' = 1
                /\ pc' = "exited"
                /\ walk' = [walk EXCEPT !.regionCount = @ + 1]
                /\ UNCHANGED <<fsDirs, fsFiles>>
           ELSE IF r.nextOffset = -1 \/ r.nextRegion.nil
           THEN /\ stage1' = "ok"
                /\ pc' = "stage2"
                /\ fsFiles' = written
                /\ walk' = [walk EXCEPT !.regionCount = @ + 1]
                /\ UNCHANGED <<exitCode, fsDirs>>
           ELSE /\ walk' = [walk EXCEPT !.currentOffset = r.nextOffset,
                                        !.currentRegion = r.nextRegion.header,
                                        !.regionCount = @ + 1]
                /\ fsFiles' = written
                /\ UNCHANGED <<stage1, exitCode, pc, fsDirs>>
    /\ UNCHANGED <<inputFile, keepTemp, numWorkers, tasks, jobs, results, workers,
                   stage2, notRun>>

\* runtime.NumCPU() of the modelled host
NumCPU == MaxWorkers

\* ExtractFiles up to the start of the pool: the worker count, the three
\* scratch files, the output directory, the tasks, the jobs channel
StartStage2 ==
    /\ pc = "stage2"
    /\ \E index \in {ParseFileIndex(fsFiles, Append(tempDir, "FileIndex.xml"))} :
       LET n == IF numWorkers <= 0 THEN Min(NumCPU, 4) ELSE numWorkers
           region6Path == Append(tempDir, "region6block.bin")
           keyMapPath == Append(tempDir, "KeyMap.bin")
       IN  IF index.err \/ region6Path \notin DOMAIN fsFiles
                        \/ keyMapPath \notin DOMAIN fsFiles
                        \/ MkdirAllFails(fsFiles, outputDir)
           THEN /\ stage2' = "failed"
                /\ exitCode' = 1
                /\ pc' = "exited"
                /\ UNCHANGED <<numWorkers, fsDirs, tasks, jobs, workers>>
           ELSE /\ numWorkers' = n
                /\ fsDirs' = MkdirAll(fsDirs, outputDir)
                /\ tasks' = [i \in 1..Len(index.Files) |->
                               NewFileTask(
                                   index.Files[i], fsFiles[region6Path],
                                   [b |-> fsFiles[keyMapPath],
                                    cap |-> ReadFileCap(Len(fsFiles[keyMapPath]))],
                                   outputDir)] \o <<>>
                /\ jobs' = tasks'
                /\ workers' = [k \in 1..n |-> [state |-> "idle", task |-> NoRet]]
                /\ stage2' = "started"
                /\ pc' = "pool"
                /\ UNCHANGED exitCode
    /\ UNCHANGED <<inputFile, keepTemp, fsFiles, walk, results, stage1, notRun>>

\* worker: `for task := range jobs` receives a task
WorkerTake(k) ==
    /\ pc = "pool"
    /\ k \in DOMAIN workers
    /\ workers[k].state = "idle"
    /\ jobs /= <<>>
    /\ workers' = [workers EXCEPT ![k] = [state |-> "busy", task |-> Head(jobs)]]
    /\ jobs' = Tail(jobs)
    /\ UNCHANGED <<pc, exitCode, inputFile, keepTemp, numWorkers, fsDirs, fsFiles,
                   walk, tasks, results, stage1, stage2, notRun>>

\* worker: the task runs and its result is sent.  A panic in the worker's
\* goroutine ends the process with status 2; nothing deferred in the main
\* goroutine runs.
WorkerFinish(k) ==
    /\ pc = "pool"
    /\ k \in DOMAIN workers
    /\ workers[k].state = "busy"
    /\ \E r \in {runFileTask(workers[k].task, fsDirs, fsFiles)} :
           /\ fsDirs' = r.dirs
           /\ fsFiles' = r.files
           /\ IF r.result.panic
              THEN /\ stage2' = "panic"
                   /\ exitCode' = 2
                   /\ pc' = "exited"
                   /\ UNCHANGED <<workers, results>>
              ELSE /\ results' = Append(results,
                                    [FileName |-> r.result.FileName,
                                     Success |-> r.result.Success,
                                     Message |-> r.result.Message])
                   /\ workers' = [workers EXCEPT ![k] = [state |-> "idle",
                                                        task |-> NoRet]]
                   /\ UNCHANGED <<stage2, exitCode, pc>>
    /\ UNCHANGED <<inputFile, keepTemp, numWorkers, walk, tasks, jobs, stage1,
                   notRun>>

\* worker: the jobs channel is closed and empty, the worker returns (wg.Done)
WorkerExit(k) ==
    /\ pc = "pool"
    /\ k \in DOMAIN workers
    /\ workers[k].state = "idle"
    /\ jobs = <<>>
    /\ workers' = [workers EXCEPT ![k].state = "exited"]
    /\ UNCHANGED <<pc, exitCode, inputFile, keepTemp, numWorkers, fsDirs, fsFiles,
                   walk, tasks, jobs, results, stage1, stage2, notRun>>

\* ExtractFiles after processFilesParallel returned: the results are counted
AnalyzeResults ==
    /\ pc = "pool"
    /\ \A k \in DOMAIN workers : workers[k].state = "exited"
    /\ LET successCount ==
               Cardinality({ i \in 1..Len(results) : results[i].Success })
       IN  IF successCount /= Len(tasks)
           THEN /\ stage2' = "failed"
                /\ exitCode' = 1
                /\ pc' = "exited"
           ELSE /\ stage2' = "ok"
                /\ pc' = "move"
                /\ UNCHANGED exitCode
    /\ UNCHANGED <<inputFile, keepTemp, numWorkers, fsDirs, fsFiles, walk, tasks,
                   jobs, results, workers, stage1, notRun>>

Manifests == <<"Patch.xml", "RawProgram.xml">>

\* the loop `for _, filename := range []string{"Patch.xml", "RawProgram.xml"}`
RECURSIVE MoveFiles(_, _, _)
MoveFiles(files, dirs, i) ==
    IF i > Len(Manifests) THEN files
    ELSE LET srcPath == Append(tempDir, Manifests[i])
             destPath == Append(outputDir, Manifests[i])
         IN  IF srcPath \in DOMAIN files /\ ~RenameFails(dirs, destPath)
             THEN MoveFiles(WriteFile(RemoveFile(files, srcPath), destPath,
                                      files[srcPath]), dirs, i + 1)
             ELSE MoveFiles(files, dirs, i + 1)

\* runExtraction after Stage 2: the configuration XMLs are moved
MoveManifests ==
    /\ pc = "move"
    /\ fsFiles' = MoveFiles(fsFiles, fsDirs, 1)
    /\ pc' = "moved"
    /\ UNCHANGED <<exitCode, inputFile, keepTemp, numWorkers, fsDirs, walk, tasks,
                   jobs, results, workers, stage1, stage2, notRun>>

\* runExtraction returns: the deferred function runs, the process exits 0
ReturnFromRun ==
    /\ pc = "moved"
    /\ fsDirs' = DeferredCleanupDirs(fsDirs)
    /\ fsFiles' = DeferredCleanupFiles(fsFiles)
    /\ exitCode' = 0
    /\ pc' = "exited"
    /\ UNCHANGED <<inputFile, keepTemp, numWorkers, walk, tasks, jobs, results,
                   workers, stage1, stage2, notRun>>

Next ==
    \/ CreateTempDir
    \/ ParseHeader
    \/ ExtractRegion
    \/ StartStage2
    \/ \E k \in 1..MaxWorkers : WorkerTake(k)
    \/ \E k \in 1..MaxWorkers : WorkerFinish(k)
    \/ \E k \in 1..MaxWorkers : WorkerExit(k)
    \/ AnalyzeResults
    \/ MoveManifests
    \/ ReturnFromRun

Spec == RunInit /\ [][Next]_vars

----------------------------------------------------------------------------
(* Properties of the whole run                                             *)

\* the pool of ExtractFiles was started in this run
PoolStarted == workers /= <<>>

Reported(i) ==
    \E j \in 1..Len(results) : results[j].FileName = tasks[i].FileInfo.Name

SomeTaskFailed == \E j \in 1..Len(results) : ~results[j].Success

PoolRule ==
    /\ Len(results) = Len(tasks)
    /\ \A i \in 1..Len(tasks) : Reported(i)
    /\ exitCode \in {0, 1}
    /\ (exitCode = 1) <=> SomeTaskFailed

\* C4: a failing file task never stops the pool: when the process has ended
\* after the pool was started, every queued task was executed and reported,
\* and the exit code is 1 if and only if at least one file task failed.
C4_PoolContinues == (pc = "exited" /\ PoolStarted) => PoolRule

\* the same for the runs in which no goroutine of the pool panicked
C4_WithoutPanic ==
    (pc = "exited" /\ PoolStarted /\ stage2 /= "panic") => PoolRule

Stage1Failed == stage1 \in {"error", "panic"}

NothingInOutput ==
    /\ \A f \in DOMAIN fsFiles : ~IsUnder(f, outputDir)
    /\ \A d \in fsDirs : ~IsUnder(d, outputDir)

\* C5: when a region of Stage 1 fails the walk stops there: the process has
\* ended, Stage 2 was never started, nothing is in the output directory and
\* the exit code is 1.
C5_Stage1Abort ==
    Stage1Failed =>
        /\ pc = "exited"
        /\ stage2 = "none"
        /\ ~PoolStarted
        /\ NothingInOutput
        /\ exitCode = 1

\* all of it but the exit code
C5_AbortOnly ==
    Stage1Failed =>
        /\ pc = "exited"
        /\ stage2 = "none"
        /\ ~PoolStarted
        /\ NothingInOutput
        /\ exitCode \in {1, 2}

ScratchPresent == tempDir \in fsDirs

RunFailed == Stage1Failed \/ stage2 \in {"failed", "panic"}

\* C6: the scratch directory exists while Stage 1 runs; when the process has
\* ended after Stage 2 succeeded it is removed unless keepTemp; when the
\* process has ended because Stage 1 or Stage 2 failed it is still present.
C6_ScratchLifecycle ==
    /\ (pc \in {"stage1", "walk"}) => ScratchPresent
    /\ (pc = "exited" /\ stage2 = "ok") => (ScratchPresent <=> keepTemp)
    /\ (pc = "exited" /\ RunFailed) => ScratchPresent

\* the same, the runs in which Stage 1 panicked left out
C6_WithoutStage1Panic ==
    /\ (pc \in {"stage1", "walk"}) => ScratchPresent
    /\ (pc = "exited" /\ stage2 = "ok") => (ScratchPresent <=> keepTemp)
    /\ (pc = "exited" /\ RunFailed /\ stage1 /= "panic") => ScratchPresent

\* Stage 1 walked the six regions of a complete archive, the manifests
\* among them
ManifestsExtracted == stage1 = "ok" /\ walk.regionCount = 6

ManifestMoved(m) ==
    /\ Append(tempDir, m) \notin DOMAIN fsFiles
    /\ ManifestsExtracted => Append(outputDir, m) \in DOMAIN fsFiles

\* C7: after all file tasks succeeded (an empty list included) and the
\* manifests were handled, Patch.xml and RawProgram.xml are no longer in
\* the scratch directory but in the output directory, and the scratch
\* directory has not been removed yet.
C7_ManifestsMoved ==
    (pc = "moved") =>
        /\ stage2 = "ok"
        /\ ScratchPresent
        /\ \A i \in 1..Len(Manifests) : ManifestMoved(Manifests[i])

\* the same for the runs in which no task made a directory with the name
\* of a manifest
C7_WithoutConflict ==
    (pc = "moved"
       /\ \A i \in 1..Len(Manifests) : Append(outputDir, Manifests[i]) \notin fsDirs)
      => /\ stage2 = "ok"
         /\ ScratchPresent
         /\ \A i \in 1..Len(Manifests) : ManifestMoved(Manifests[i])

\* an absolute name starts with an empty component
IsAbs(name) == name /= <<>> /\ name[1] = ""

HasDotDot(name) == \E i \in 1..Len(name) : name[i] = ".."

Confined(path) == IsUnder(path, outputDir) \/ IsUnder(path, tempDir)

\* C8: an entry whose name is absolute or has a ".." component fails, no
\* directory or file exists outside the output directory (and the scratch
\* directory), and an entry extracted under another name has its parent
\* directories and its file under the output directory.
C8_NamesConfined ==
    /\ \A j \in 1..Len(results) :
          (IsAbs(results[j].FileName) \/ HasDotDot(results[j].FileName))
              => ~results[j].Success
    /\ \A d \in fsDirs : Confined(d)
    /\ \A f \in DOMAIN fsFiles : Confined(f)
    /\ \A j \in 1..Len(results) :
          (results[j].Success /\ ~IsAbs(results[j].FileName)
                              /\ ~HasDotDot(results[j].FileName))
              => /\ Prefixes(outputDir \o PathDir(results[j].FileName)) \subseteq fsDirs
                 /\ (outputDir \o results[j].FileName) \in DOMAIN fsFiles

\* the part about names with ordinary separators
C8_OrdinaryNames ==
    \A j \in 1..Len(results) :
        (results[j].Success /\ ~IsAbs(results[j].FileName)
                            /\ ~HasDotDot(results[j].FileName))
            => /\ Prefixes(outputDir \o PathDir(results[j].FileName)) \subseteq fsDirs
               /\ (outputDir \o results[j].FileName) \in DOMAIN fsFiles



\* the version fields of the archive's header
HeaderVersion ==
    <<LE64Value(SubSeq(inputFile.head, 9, 16)),
      LE64Value(SubSeq(inputFile.head, 17, 24)),
      LE64Value(SubSeq(inputFile.head, 25, 32))>>

\* the registry as the claim reads it: version triples with their key sets
RegistryTriples == {[triple |-> <<1, 3, 0>>, dict |-> AESDict_V1_3_0]}

ExactEntries(v) == { e \in RegistryTriples : e.triple = v }

PrefixEntries(v) ==
    { e \in RegistryTriples : e.triple[1] = v[1] /\ e.triple[2] = v[2] }

ResolvedAsClaimed(v) ==
    IF ExactEntries(v) /= {} THEN walk.keyDict \in { e.dict : e \in ExactEntries(v) }
    ELSE IF PrefixEntries(v) /= {}
    THEN walk.keyDict \in { e.dict : e \in PrefixEntries(v) }
    ELSE walk.keyDict = AESDict_V1_3_0

UsedDefault(v) == ExactEntries(v) = {} /\ PrefixEntries(v) = {}

\* C12: the key set of a version triple is that of the exact triple, else
\* that of its major.minor, else the default 1.3.0 set; when the default was
\* used for want of a match Stage 1 has warned the host, and it goes on
\* decoding with the set.
C12_KeyResolution ==
    (walk /= NoRet) =>
        /\ ResolvedAsClaimed(HeaderVersion)
        /\ UsedDefault(HeaderVersion) => walk.warned
        /\ pc = "walk" \/ walk.regionCount > 0

\* the lookup order and the default set alone
C12_ResolutionOnly ==
    (walk /= NoRet) =>
        /\ ResolvedAsClaimed(HeaderVersion)
        /\ pc = "walk" \/ walk.regionCount > 0



\* the walk has handled a region of type 6: it is the current region and
\* the loop has been left
Region6Handled ==
    walk /= NoRet /\ walk.currentRegion.RegionType = 6 /\ pc /= "walk"

\* [region_offset, region_offset + region_size) lies in the archive
SliceInArchive ==
    /\ walk.currentRegion.RegionSize >= 0
    /\ walk.currentOffset + walk.currentRegion.RegionSize <= inputFile.len

\* the bytes of the archive from region_offset on, region_size of them
ArchiveSlice ==
    [len |-> walk.currentRegion.RegionSize,
     at |-> IF walk.currentOffset \in DOMAIN inputFile.at
            THEN inputFile.at[walk.currentOffset].at
            ELSE [o \in {} |-> NotAHeader]]

ScratchFiles == { f \in DOMAIN fsFiles : IsUnder(f, tempDir) }

RegionsBefore(offset) == { o \in DOMAIN inputFile.at : o < offset }

RegionsAfter(offset) == { o \in DOMAIN inputFile.at : o > offset }

\* C13: a region of type 6 whose slice lies in the archive ends Stage 1 with
\* success; region6block.bin is then the slice as it is in the archive
\* (empty for region_size 0), and the scratch directory holds one file for
\* every region up to it and none for a region located after it.
C13_Region6Verbatim ==
    /\ (Region6Handled /\ SliceInArchive) => stage1 = "ok"
    /\ (Region6Handled /\ pc = "stage2") =>
          /\ Append(tempDir, "region6block.bin") \in DOMAIN fsFiles
          /\ fsFiles[Append(tempDir, "region6block.bin")] = ArchiveSlice
          /\ walk.regionCount = Cardinality(RegionsBefore(walk.currentOffset)) + 1
          /\ Cardinality(ScratchFiles) = walk.regionCount

\* the walk stopped at a region 6 shorter than the bytes that follow its
\* offset, with another region located after it
C13_Witness ==
    /\ Region6Handled /\ pc = "stage2"
    /\ RegionsAfter(walk.currentOffset) /= {}
    /\ walk.currentRegion.RegionSize < GoodRegion6.len
    /\ fsFiles[Append(tempDir, "region6block.bin")].len = walk.currentRegion.RegionSize

\* the 48-byte archive: region6block.bin is empty
C13_EmptyRegion6 ==
    /\ Region6Handled /\ pc = "stage2"
    /\ inputFile.len = 48
    /\ fsFiles[Append(tempDir, "region6block.bin")].len = 0



\* the file name the claim gives a metadata region type
ClaimedName(t) ==
    CASE t = 1 -> "Metadata.xml"
      [] t = 2 -> "Patch.xml"
      [] t = 3 -> "RawProgram.xml"
      [] t = 4 -> "KeyMap.bin"
      [] OTHER -> "FileIndex.xml"

\* the current region's slice of the archive, decrypted with the key and IV
\* of the region's type
DecryptedRegion ==
    DecryptRegionData(
        AsCiphertext(inputFile, walk.currentOffset,
                     walk.currentOffset + walk.currentRegion.RegionSize),
        walk.currentRegion.RegionType, walk.keyDict)

\* real_size of a decrypted region, bytes 32..40
RealSizeOf(decrypted) == LE64Value(SubSeq(decrypted, 33, 40))

\* no file appears or changes in the step
NoFileWritten ==
    \A f \in DOMAIN fsFiles' : f \in DOMAIN fsFiles /\ fsFiles'[f] = fsFiles[f]

Stage1FailsInStep == stage1' \in {"error", "panic"} /\ pc' = "exited"

MetadataRegionStep(d) ==
    LET t == walk.currentRegion.RegionType
        decodes == /\ t \in 1..5
                   /\ SliceInArchive
                   /\ ~d.err
                   /\ Len(d.data) >= 40
        fits == RealSizeOf(d.data) >= 0 /\ 40 + RealSizeOf(d.data) <= Len(d.data)
    IN  /\ (decodes /\ fits) =>
              /\ ~Stage1FailsInStep
              /\ fsFiles' = WriteFile(fsFiles, Append(tempDir, ClaimedName(t)),
                                      SubSeq(d.data, 41, 40 + RealSizeOf(d.data)))
        /\ (t \notin 1..6 \/ (decodes /\ ~fits)) =>
              /\ Stage1FailsInStep
              /\ NoFileWritten

\* C14: every step of the walk on a region of type 1..5 that decodes writes
\* decrypted[40 .. 40 + real_size], the region being decrypted with the key
\* and IV of its type, as Metadata.xml, Patch.xml, RawProgram.xml,
\* KeyMap.bin or FileIndex.xml; on a type outside 1..6 or a real_size beyond
\* the decrypted buffer Stage 1 fails and the step writes no file.
C14_MetadataRegions ==
    [][ (pc = "walk" /\ walk.currentRegion.RegionType /= 6)
            => \A d \in {DecryptedRegion} : MetadataRegionStep(d) ]_vars

\* the walk has written the five metadata files of a complete archive
C14_Witness ==
    /\ pc = "walk"
    /\ walk.currentRegion.RegionType = 6
    /\ \A t \in 1..5 : Append(tempDir, ClaimedName(t)) \in DOMAIN fsFiles
    /\ fsFiles[Append(tempDir, "KeyMap.bin")] = KeyMapTable
    /\ fsFiles[Append(tempDir, "RawProgram.xml")] = MetaPayload(3, <<>>)



----------------------------------------------------------------------------
(* Harness of the path and segment-count policy: ExtractFiles makes the    *)
(* task of one entry whose PartitionLength lies at, just below or just     *)
(* above a threshold.  Lengths are in KiB, as in the FileIndex of the run. *)

SizeSpread == 12

MiB == 1024
GiB == 1024 * MiB

PolicyThresholds == {500 * MiB, 1 * GiB, 2 * GiB, 4 * GiB}

PolicySizes ==
    {0} \cup { t + d : t \in PolicyThresholds, d \in (0 - SizeSpread)..SizeSpread }

PolicyInit ==
    /\ \E p \in PolicySizes :
          fnArgs = [fn |-> "NewFileTask",
                    file |-> MkFileInfo(<<"a.img">>, 1, 1, BaseKeyIndex, 1, FALSE, p)]
    /\ fnRet = NoRet
    /\ SegIdle
    /\ RunIdle

PolicyMakeTask ==
    /\ fnArgs.fn = "NewFileTask"
    /\ fnRet = NoRet
    /\ fnRet' = NewFileTask(fnArgs.file, <<>>, [b |-> <<>>, cap |-> 0], outputDir)
    /\ UNCHANGED <<fnArgs, notPure>>

PolicyNext == PolicyMakeTask

SpecPolicy == PolicyInit /\ [][PolicyNext]_vars

TaskMade == fnArgs.fn = "NewFileTask" /\ fnRet /= NoRet

\* the segment count the claim gives a partition length: the entry of the
\* greatest threshold the length has reached
ClaimedBuckets ==
    { <<0, 1>>, <<500 * MiB, 4>>, <<1 * GiB, 8>>, <<2 * GiB, 12>>, <<4 * GiB, 16>> }

ClaimedSegments(p) ==
    LET reached == { b \in ClaimedBuckets : b[1] <= p }
    IN  (CHOOSE b \in reached : \A c \in reached : c[1] <= b[1])[2]

\* C15: an entry takes the sequential path exactly when its partition length
\* is below 500 MiB; otherwise the segmented path with 4 segments below
\* 1 GiB, 8 below 2 GiB, 12 below 4 GiB and 16 from 4 GiB on, a length equal
\* to a threshold falling in the higher bucket.
C15_SegmentPolicy ==
    TaskMade =>
        /\ fnRet.UseSegmented = (fnArgs.file.PartitionLength >= 500 * MiB)
        /\ fnRet.UseSegmented => fnRet.NumSegments = ClaimedSegments(fnArgs.file.PartitionLength)
        /\ ~fnRet.UseSegmented => fnRet.NumSegments = 1

\* an entry of exactly 2 GiB is split into 12 segments
C15_Witness ==
    /\ TaskMade
    /\ fnArgs.file.PartitionLength = 2 * GiB
    /\ fnRet.UseSegmented
    /\ fnRet.NumSegments = 12



----------------------------------------------------------------------------
(* Entries of the FileIndex in the whole run                               *)

ZeroLength(i) == tasks[i].FileInfo.PartitionLength = 0

ResultsOf(i) ==
    { j \in 1..Len(results) : results[j].FileName = tasks[i].FileInfo.Name }

\* C16: an entry whose partition length is 0 is rejected: its task reports
\* failure and no output file is written for it.
C16_ZeroLengthRejected ==
    \A i \in 1..Len(tasks) :
        ZeroLength(i) =>
            /\ \A j \in ResultsOf(i) : ~results[j].Success
            /\ (outputDir \o tasks[i].FileInfo.Name) \notin DOMAIN fsFiles



FileIndexPath == Append(tempDir, "FileIndex.xml")

\* some <file> element of the extracted FileIndex.xml lacks an attribute
LacksAttribute ==
    /\ FileIndexPath \in DOMAIN fsFiles
    /\ \E i \in 1..Len(fsFiles[FileIndexPath]) :
          /\ fsFiles[FileIndexPath][i] \in 1..FileElements
          /\ MissingAttributes(fsFiles[FileIndexPath][i]) /= {}

\* C17: a FileIndex in which some file element lacks a required attribute
\* is a fatal parse error: ParseFileIndex returns an error and Stage 2 runs
\* no task.
C17_MissingAttributeFatal ==
    [][ (pc = "stage2" /\ LacksAttribute)
            => /\ ParseFileIndex(fsFiles, FileIndexPath).err
               /\ stage2' = "failed"
               /\ tasks' = <<>> ]_vars



----------------------------------------------------------------------------
(* Harness of the header decoders: buffers of a length at, below or above  *)
(* the header size, with the right magic or another one                    *)

HeaderSpread == 4

HeaderLens(size) == {0} \cup ((size - HeaderSpread)..(size + HeaderSpread))

\* "NTDECODE"
NTDecodeMagic == <<78, 84, 68, 69, 67, 79, 68, 69>>

Magics4 == {NTPIMagic, NTPXMagic, Zeros(4)}
Magics8 == {NTEncodeMagic, NTDecodeMagic, Zeros(8)}

\* n bytes: the magic (as far as it fits), then zeros
ByteBuffer(magic, n) == [i \in 1..n |-> IF i <= Len(magic) THEN magic[i] ELSE 0]

HeaderInit ==
    /\ \/ \E n \in HeaderLens(NTPIHeaderSize) : \E m \in Magics4 :
             fnArgs = [fn |-> "ParseNTPIHeader", size |-> NTPIHeaderSize,
                       magic |-> m, want |-> NTPIMagic, len |-> n]
       \/ \E n \in HeaderLens(NTEncodeHeaderSize) : \E m \in Magics8 :
             \E f \in {"ParseNTEncodeHeader", "ParseNTDecompressHeader"} :
                fnArgs = [fn |-> f, size |-> NTEncodeHeaderSize,
                          magic |-> m, want |-> NTEncodeMagic, len |-> n]
    /\ fnRet = NoRet
    /\ SegIdle
    /\ RunIdle

HeaderParseNTPI ==
    /\ fnArgs.fn = "ParseNTPIHeader"
    /\ fnRet = NoRet
    /\ fnRet' = ParseNTPIHeader(ByteBuffer(fnArgs.magic, fnArgs.len))
    /\ UNCHANGED <<fnArgs, notPure>>

HeaderParseNTEncode ==
    /\ fnArgs.fn = "ParseNTEncodeHeader"
    /\ fnRet = NoRet
    /\ fnRet' = ParseNTEncodeHeader(
                    [len |-> fnArgs.len,
                     h |-> [NotAHeader EXCEPT !.Magic = fnArgs.magic]])
    /\ UNCHANGED <<fnArgs, notPure>>

HeaderParseNTDecompress ==
    /\ fnArgs.fn = "ParseNTDecompressHeader"
    /\ fnRet = NoRet
    /\ fnRet' = ParseNTDecompressHeader(ByteBuffer(fnArgs.magic, fnArgs.len))
    /\ UNCHANGED <<fnArgs, notPure>>

HeaderNext == HeaderParseNTPI \/ HeaderParseNTEncode \/ HeaderParseNTDecompress

SpecHeader == HeaderInit /\ [][HeaderNext]_vars

HeaderParsed ==
    /\ fnArgs.fn \in {"ParseNTPIHeader", "ParseNTEncodeHeader",
                      "ParseNTDecompressHeader"}
    /\ fnRet /= NoRet

\* C18: the header decoders check the length before the magic: a buffer
\* shorter than the header (48 bytes for the file header, 112 for the
\* EncodeHeader and the DecompressHeader) gives the short-buffer error
\* whatever its first bytes are, and a buffer that is long enough with a
\* wrong magic gives the bad-magic error.
C18_LengthBeforeMagic ==
    HeaderParsed =>
        /\ (fnArgs.len < fnArgs.size)
              => (fnRet.err /\ fnRet.msg = "data too small")
        /\ (fnArgs.len >= fnArgs.size /\ fnArgs.magic /= fnArgs.want)
              => (fnRet.err /\ fnRet.msg = "invalid magic")

\* a buffer one byte short with a wrong magic: the short-buffer error
C18_Witness ==
    /\ HeaderParsed
    /\ fnArgs.fn = "ParseNTEncodeHeader"
    /\ fnArgs.len = NTEncodeHeaderSize - 1
    /\ fnArgs.magic = NTDecodeMagic
    /\ fnRet.err
    /\ fnRet.msg = "data too small"

\* an archive whose magic is "NTPX": Stage 1 fails with exit code 1 and no
\* region file was written
C18_WrongMagicArchive ==
    (SubSeq(inputFile.head, 1, 4) = NTPXMagic /\ pc \notin {"start", "stage1"})
        => /\ pc = "exited"
           /\ stage1 = "error"
           /\ exitCode = 1
           /\ DOMAIN fsFiles = {}

C18_WrongMagicSeen ==
    SubSeq(inputFile.head, 1, 4) = NTPXMagic /\ pc = "exited"



----------------------------------------------------------------------------
(* The pool against the run that takes the entries one by one in the       *)
(* order of the FileIndex                                                  *)

PoolDone == pc = "pool" /\ \A k \in DOMAIN workers : workers[k].state = "exited"

ScratchOnly(files) ==
    [f \in { g \in DOMAIN files : IsUnder(g, tempDir) } |-> files[f]]

\* the directories, files and results after the tasks i.. were run one
\* after the other
RECURSIVE InOrder(_, _, _, _)
InOrder(i, dirs, files, reported) ==
    IF i > Len(tasks) THEN [dirs |-> dirs, files |-> files, reported |-> reported]
    ELSE Only({ InOrder(i + 1, r.dirs, r.files,
                        reported \cup {[FileName |-> r.result.FileName,
                                        Success |-> r.result.Success,
                                        Message |-> r.result.Message]}) :
                r \in {runFileTask(tasks[i], dirs, files)} })

InOrderRun ==
    InOrder(1, MkdirAll(MkdirAll({}, tempDir), outputDir), ScratchOnly(fsFiles), {})

SameAsInOrder(ref) ==
    /\ fsFiles = ref.files
    /\ fsDirs = ref.dirs
    /\ { results[j] : j \in 1..Len(results) } = ref.reported

\* C19: whatever the number of workers and the interleaving of the tasks,
\* when the pool has finished the content of every output path and the
\* result of every entry are those of the entries taken one by one: two
\* runs over the same FileIndex end with the same output directory.
C19_OutputsIndependent ==
    PoolDone => \A ref \in {InOrderRun} : SameAsInOrder(ref)

DistinctNames ==
    \A i, j \in 1..Len(tasks) :
        (i /= j) => tasks[i].FileInfo.Name /= tasks[j].FileInfo.Name

\* the same for a FileIndex without two entries of one name
C19_DistinctNames ==
    (PoolDone /\ DistinctNames) => \A ref \in {InOrderRun} : SameAsInOrder(ref)



----------------------------------------------------------------------------
(* The loop of ParseNTPIFile                                               *)

\* the walk starts: the offset is the header size and the region is the
\* first_region of the file header
WalkStarts ==
    (pc = "stage1" /\ pc' = "walk") =>
        /\ walk'.currentOffset = 48
        /\ walk'.currentRegion = RegionHeaderAt(inputFile.head, 32)

\* an iteration on a metadata region that did not fail: the walk goes on at
\* the end of the region with the next_header of its decrypted block header
\* when that header's region_size is not 0, and stops with success otherwise
WalkGoesOn(d) ==
    LET next == RegionHeaderAt(d.data, 16)
    IN  IF next.RegionSize /= 0
        THEN /\ pc' = "walk"
             /\ stage1' = "none"
             /\ walk'.currentOffset =
                    walk.currentOffset + walk.currentRegion.RegionSize
             /\ walk'.currentRegion = next
        ELSE /\ pc' = "stage2"
             /\ stage1' = "ok"

\* C20: the walk starts at offset 48 with first_region; every iteration on
\* a metadata region that succeeds moves the offset by the region's size, so
\* that the offset is 48 plus the sizes of the regions visited, and takes
\* the next_header of the region's decrypted RegionBlockHeader; the walk
\* continues exactly when next_header.region_size > 0 and otherwise stops
\* with success.
C20_RegionWalk ==
    [][ /\ WalkStarts
        /\ (pc = "walk" /\ walk.currentRegion.RegionType /= 6
                        /\ ~Stage1FailsInStep)
              => \A d \in {DecryptedRegion} : WalkGoesOn(d) ]_vars

RECURSIVE SumOfWritten(_)
SumOfWritten(t) ==
    IF t = 0 THEN 0
    ELSE SumOfWritten(t - 1)
           + PaddedLen(RegionBlockHeaderSize
                         + Len(fsFiles[Append(tempDir, ClaimedName(t))]))

\* five metadata regions visited: the offset is 48 plus their sizes
C20_Witness ==
    /\ pc = "walk"
    /\ walk.regionCount = 5
    /\ \A t \in 1..5 : Append(tempDir, ClaimedName(t)) \in DOMAIN fsFiles
    /\ walk.currentOffset = NTPIHeaderSize + SumOfWritten(5)

\* a walk that stopped with success after a metadata region
C20_StopsAfterMetadata ==
    /\ pc = "stage2"
    /\ stage1 = "ok"
    /\ walk.currentRegion.RegionType /= 6



----------------------------------------------------------------------------
(* Keys and IVs of the blocks in the one-file harness                      *)

\* the offsets of region 6 at which a block lies
BlockOffsets == DOMAIN curTask.Region6Data.at

\* the number k of the block at offset o, counted from the entry's first
RankInFile(o) ==
    Cardinality({ b \in BlockOffsets : curTask.FileInfo.Offset <= b /\ b < o })

\* a call of the block pipeline on a block of region 6 has the key index
\* key_index + k and, when it came to decrypt, the IV of the block's header
CallRule(c) ==
    (c.Offset \in BlockOffsets /\ c.Offset >= curTask.FileInfo.Offset) =>
        /\ c.KeyIndex = curTask.FileInfo.KeyIndex + RankInFile(c.Offset)
        /\ (c.IV /= <<>>) => c.IV = SubSeq(curTask.Region6Data.at[c.Offset].IV, 1, 16)

CallsFollowRule(calls) == \A i \in 1..Len(calls) : CallRule(calls[i])

SequentialCalls ==
    SequentialLoop(curTask, curTask.FileInfo.Offset,
                   curTask.FileInfo.Offset + curTask.FileInfo.Length, 0, <<>>).calls

SegmentCalls(idx) == processSegment(curTask, fileSegments[idx]).calls

\* C21: in both paths the k-th block of the file is decrypted with the key
\* of index key_index + k and with the IV of its own EncodeHeader; in a
\* segment the index is key_index + start_block_index + j, which is the
\* same number.
C21_BlockKeys ==
    /\ (seqResult /= NoRet) => \A calls \in {SequentialCalls} : CallsFollowRule(calls)
    /\ \A n \in 1..Len(segReturned) :
          \A calls \in {SegmentCalls(segReturned[n])} :
              /\ CallsFollowRule(calls)
              /\ \A j \in 1..Len(calls) :
                    calls[j].KeyIndex = curTask.FileInfo.KeyIndex
                        + fileSegments[segReturned[n]].StartBlockIndex + j - 1

\* a segment that does not start at the file's first block has decrypted
\* two blocks
C21_Witness ==
    \E n \in 1..Len(segReturned) :
        /\ fileSegments[segReturned[n]].StartBlockIndex >= 1
        /\ \E calls \in {SegmentCalls(segReturned[n])} :
              /\ Len(calls) >= 2
              /\ \A j \in 1..Len(calls) : calls[j].IV /= <<>>



----------------------------------------------------------------------------
(* The segments of the one-file harness                                    *)

\* the blocks the boundary scan of the entry finds
ScannedBlocks ==
    Len(ScanBoundaries(curTask, curTask.FileInfo.Offset,
                       curTask.FileInfo.Offset + curTask.FileInfo.Length,
                       0, 0, <<>>).boundaries)

Tiling(segs, B) ==
    /\ Len(segs) >= 1
    /\ Len(segs) <= curTask.NumSegments
    /\ \A i \in 1..Len(segs) : segs[i].NumBlocks >= 1
    /\ segs[1].StartBlockIndex = 0
    /\ segs[1].StartOffset = curTask.FileInfo.Offset
    /\ \A i \in 2..Len(segs) :
          /\ segs[i].StartBlockIndex
                = segs[i - 1].StartBlockIndex + segs[i - 1].NumBlocks
          /\ segs[i].StartOffset = segs[i - 1].EndOffset
    /\ segs[Len(segs)].EndOffset
          = curTask.FileInfo.Offset + curTask.FileInfo.Length
    /\ SumBlockCount(segs, 1) = B

\* C22: for every entry with at least one scanned block and every S >= 1
\* splitFileIntoSegments returns between 1 and S segments of at least one
\* block each that tile the entry: the first starts at block 0 and at the
\* entry's offset, each next one where the previous ends, the last ends at
\* offset + length, and the block counts add up to the scanned blocks.
C22_SegmentTiling ==
    (segPc /= "start" /\ ScannedBlocks >= 1 /\ segResult = NoRet)
        => Tiling(fileSegments, ScannedBlocks)

\* three blocks asked in two segments: two blocks, then one
C22_Witness ==
    /\ segPc = "workers"
    /\ curTask.NumSegments = 2
    /\ Len(fileSegments) = 2
    /\ fileSegments[1].NumBlocks = 2
    /\ fileSegments[2].NumBlocks = 1



\* more segments were asked than the entry has scanned blocks
FewBlocks == ScannedBlocks >= 1 /\ curTask.NumSegments > ScannedBlocks

SplitReturned == segPc /= "start"

SplitFailed == segPc = "done" /\ segResult.Message \in {"failed to split file", "panic"}
                 /\ fileSegments = <<>>

\* the entry is the one block at its offset: length = 112 + original_size
SingleBlockFile ==
    /\ curTask.FileInfo.Offset \in BlockOffsets
    /\ curTask.FileInfo.Length
          = 112 + curTask.Region6Data.at[curTask.FileInfo.Offset].OriginalSize

\* one segment over the whole entry, and the outcome of the sequential path
AsSequential ==
    /\ Len(fileSegments) = 1
    /\ fileSegments[1].StartOffset = curTask.FileInfo.Offset
    /\ fileSegments[1].EndOffset = curTask.FileInfo.Offset + curTask.FileInfo.Length
    /\ (segPc = "done") =>
          /\ segResult.Success = seqResult.Success
          /\ segResult.wrote = seqResult.wrote
          /\ segResult.data = seqResult.data

----------------------------------------------------------------------------
(* The pool under fair scheduling: the Go scheduler lets every goroutine   *)
(* that can run take its next step                                         *)

\* the runs over a complete archive of the registry's version
PoolInit ==
    /\ \E ids \in DocIds : \E w \in 0..MaxWorkers :
          RunStart(FullChain, NoDefect, ids, <<1, 3, 0>>, FALSE, w, FALSE)
    /\ pc = "start"
    /\ exitCode = -1
    /\ walk = NoRet
    /\ tasks = <<>>
    /\ jobs = <<>>
    /\ results = <<>>
    /\ workers = <<>>
    /\ stage1 = "none"
    /\ stage2 = "none"
    /\ PureIdle
    /\ SegIdle

FairSpec == PoolInit /\ [][Next]_vars /\ WF_vars(Next)

Busy == { k \in DOMAIN workers : workers[k].state = "busy" }

\* the names of the tasks waiting, queued and reported
Waiting == [i \in 1..Len(jobs) |-> jobs[i].FileInfo.Name]
Queued == [i \in 1..Len(tasks) |-> tasks[i].FileInfo.Name]
Returned == [i \in 1..Len(results) |-> results[i].FileName]

NamesOf(seq) == { seq[i] : i \in 1..Len(seq) }

CountOf(name, seq) == Cardinality({ i \in 1..Len(seq) : seq[i] = name })

InProgress(name) ==
    Cardinality({ k \in Busy : workers[k].task.FileInfo.Name = name })

\* every task is waiting, in progress in one worker or reported, and at
\* most W tasks are in progress
PoolSafety ==
    (pc = "pool") =>
        /\ Cardinality(Busy) <= numWorkers
        /\ Cardinality(DOMAIN workers) = numWorkers
        /\ \A name \in NamesOf(Queued) :
              CountOf(name, Queued)
                = CountOf(name, Waiting) + InProgress(name) + CountOf(name, Returned)

OneResultPerTask ==
    /\ Len(results) = Len(tasks)
    /\ \A name \in NamesOf(Queued) : CountOf(name, Returned) = CountOf(name, Queued)

\* C24: for every worker count and task list, under fair scheduling
\* processFilesParallel terminates and returns exactly one result per task;
\* every task is taken by exactly one worker and at most W file tasks are
\* in progress at any moment.
C24_Scheduler ==
    /\ []PoolSafety
    /\ (pc = "pool") ~> (PoolDone /\ OneResultPerTask)

\* the same for the runs in which no worker goroutine panics
C24_WithoutPanic ==
    /\ []PoolSafety
    /\ (pc = "pool") ~> ((PoolDone /\ OneResultPerTask) \/ stage2 = "panic")



----------------------------------------------------------------------------
(* Memory of Stage 2.  The shared inputs are the byte slices region6Data   *)
(* and keyMapData that every FileTask carries and the FileInfo of the      *)
(* entry; two goroutines (file workers or segment workers) take the block  *)
(* pipeline through its statements, each on a block of its own.  Every     *)
(* statement that writes bytes names the buffer it writes to: a buffer it  *)
(* has just made, or a slice of a shared input.                            *)

\* a buffer made by the statement itself
Fresh == [buf |-> "fresh", offset |-> 0]

\* ExtractKeyFromKeyMap: `key := make([]byte, 32)`, then copy(key, ...)
ExtractKeyDst(keyOffset) == Fresh

CryptBlocksDstInPlace(dataOffset) == [buf |-> "region6", offset |-> dataOffset]

\* DecryptAESCBC: `decryptedData := make([]byte, len(encryptedData))`, then
\* mode.CryptBlocks(decryptedData, encryptedData)
CryptBlocksDst(dataOffset) == Fresh

\* decompressLZMA2: io.Copy into a bytes.Buffer of its own
DecompressDst == Fresh

\* the shared buffers after data was written to dst
Store(heap, dst, data) ==
    IF dst.buf = "region6"
    THEN [heap EXCEPT !.region6.at[dst.offset - NTEncodeHeaderSize].ct =
                          [pt |-> data, key |-> <<>>, iv |-> <<>>]]
    ELSE IF dst.buf = "keymap"
    THEN [heap EXCEPT !.keymap.b =
              [i \in 1..Len(@) |->
                  IF i > dst.offset /\ i <= dst.offset + Len(data)
                  THEN data[i - dst.offset] ELSE @[i]]]
    ELSE heap

\* a goroutine about to process block j with key index keyIndex
Goroutine(j, keyIndex) ==
    [at |-> "key", offset |-> BlockOffset(j), keyIndex |-> keyIndex,
     key |-> <<>>, decrypted |-> <<>>, out |-> <<>>]

MemInit ==
    /\ \E region6 \in {GoodRegion6, MkRegion6({2}, "tampered", 0),
                       MkRegion6({1}, "badmagic", 0)} :
       \E j1 \in 1..Region6Blocks : \E j2 \in 1..Region6Blocks :
       \E keyDelta \in {0, 1} : \E index \in {1, 2} :
          /\ fnArgs = [fn |-> "Stage2Memory",
                       region6 |-> region6,
                       keymap |-> KeyMapFile,
                       file |-> FileElement(index)]
          /\ fnRet = [heap |-> [region6 |-> region6, keymap |-> KeyMapFile,
                                file |-> FileElement(index)],
                      g |-> <<Goroutine(j1, BaseKeyIndex + j1 - 1),
                              Goroutine(j2, BaseKeyIndex + j2 - 1 + keyDelta)>>]
    /\ SegIdle
    /\ RunIdle

InMemoryHarness == fnArgs /= NoRet /\ fnArgs.fn = "Stage2Memory"

\* crypto.ExtractKeyFromKeyMap(task.KeyMapData, keyIndex)
MemExtractKey(n) ==
    /\ InMemoryHarness
    /\ fnRet.g[n].at = "key"
    /\ \E k \in {ExtractKeyFromKeyMap(fnRet.heap.keymap, fnRet.g[n].keyIndex)} :
          IF k.err \/ k.panic
          THEN fnRet' = [fnRet EXCEPT !.g[n].at = "failed"]
          ELSE fnRet' = [fnRet EXCEPT
                            !.heap = Store(@, ExtractKeyDst(
                                         KeyOffsetWrap(fnRet.g[n].keyIndex * 32,
                                                       Len(fnRet.heap.keymap.b))),
                                         k.key),
                            !.g[n].key = k.key,
                            !.g[n].at = "decrypt"]
    /\ UNCHANGED <<fnArgs, notPure>>

\* crypto.DecryptNTEncodeBlock(task.Region6Data, currentOffset, key)
MemDecrypt(n) ==
    /\ InMemoryHarness
    /\ fnRet.g[n].at = "decrypt"
    /\ \E d \in {DecryptNTEncodeBlock(fnRet.heap.region6, fnRet.g[n].offset,
                                      fnRet.g[n].key)} :
          IF d.err \/ d.panic
          THEN fnRet' = [fnRet EXCEPT !.g[n].at = "failed"]
          ELSE fnRet' = [fnRet EXCEPT
                            !.heap = Store(@, CryptBlocksDst(
                                         fnRet.g[n].offset + NTEncodeHeaderSize),
                                         d.data),
                            !.g[n].decrypted = d.data,
                            !.g[n].at = "decompress"]
    /\ UNCHANGED <<fnArgs, notPure>>

\* decompressLZMA2(decryptedData)
MemDecompress(n) ==
    /\ InMemoryHarness
    /\ fnRet.g[n].at = "decompress"
    /\ \E z \in {decompressLZMA2(fnRet.g[n].decrypted)} :
          IF z.err
          THEN fnRet' = [fnRet EXCEPT !.g[n].at = "failed"]
          ELSE fnRet' = [fnRet EXCEPT
                            !.heap = Store(@, DecompressDst, z.data),
                            !.g[n].out = z.data,
                            !.g[n].at = "done"]
    /\ UNCHANGED <<fnArgs, notPure>>

MemNext == \E n \in 1..2 : MemExtractKey(n) \/ MemDecrypt(n) \/ MemDecompress(n)

SpecMem == MemInit /\ [][MemNext]_vars

----------------------------------------------------------------------------
(* The sequential loop over the blocks of an entry                         *)

SequentialRun ==
    SequentialLoop(curTask, curTask.FileInfo.Offset,
                   curTask.FileInfo.Offset + curTask.FileInfo.Length, 0, <<>>)

\* the offsets the loop visits start at the entry's offset, grow strictly,
\* and each block that was processed leads to offset + 112 + original_size
VisitsInOrder(calls) ==
    /\ calls /= <<>> => calls[1].Offset = curTask.FileInfo.Offset
    /\ \A i \in 1..Len(calls) - 1 :
          /\ calls[i].Offset < calls[i + 1].Offset
          /\ calls[i].Offset \in BlockOffsets
          /\ calls[i + 1].Offset = calls[i].Offset + NTEncodeHeaderSize
                 + curTask.Region6Data.at[calls[i].Offset].OriginalSize

\* C26: the sequential loop visits the blocks of an entry in strictly
\* increasing offset order, each once, with next = offset + 112 +
\* original_size, and it ends for every entry with a result: with an error,
\* never with a runtime panic, when a header or a ciphertext would extend
\* past the end of region 6.
C26_SequentialLoop ==
    (seqResult /= NoRet) =>
        \A run \in {SequentialRun} :
            /\ VisitsInOrder(run.calls)
            /\ ~run.panic

\* the order of the visits alone
C26_VisitsInOrder ==
    (seqResult /= NoRet) => \A run \in {SequentialRun} : VisitsInOrder(run.calls)

\* the entry is not the one with key index -1, and the loop panicked
C26_PanicOnSize ==
    /\ seqResult /= NoRet
    /\ curTask.FileInfo.KeyIndex >= 0
    /\ SequentialRun.panic



----------------------------------------------------------------------------
(* Termination of the loop of ParseNTPIFile                                *)

\* an iteration after which the loop continues has consumed a region of
\* more than 0 bytes that lies inside the archive, so the offset grew and
\* the iterations so far are fewer than the bytes of the archive
WalkAdvances ==
    (pc = "walk" /\ pc' = "walk") =>
        /\ walk.currentRegion.RegionSize > 0
        /\ walk'.currentOffset > walk.currentOffset
        /\ walk'.currentOffset <= inputFile.len
        /\ walk'.regionCount = walk.regionCount + 1
        /\ walk'.regionCount <= walk'.currentOffset

\* an iteration after which the loop has ended: ParseNTPIFile returned nil
\* or an error
WalkEndsWithResult ==
    (pc = "walk" /\ pc' /= "walk") =>
        /\ stage1' \in {"ok", "error"}
        /\ walk'.regionCount <= inputFile.len

\* C27: the region walk of Stage 1 terminates on every archive: an iteration
\* that continues has consumed a region of size > 0, the offset grows
\* strictly (no offset is visited twice), and the walk ends in success or in
\* an error after at most len(archive) iterations.
C27_WalkTerminates == [][WalkAdvances /\ WalkEndsWithResult]_vars

\* the progress of the walk alone
C27_WalkAdvances == [][WalkAdvances]_vars

\* the walk ended in a runtime panic after it had consumed a region
C27_WalkPanicked ==
    /\ pc = "exited"
    /\ stage1 = "panic"
    /\ walk.regionCount >= 2



----------------------------------------------------------------------------
(* What the sequential path rejects                                        *)

\* processFileSequential returned a failure for the entry
SequentialRejects == seqResult /= NoRet /\ ~seqResult.Success

\* processLargeFileSegmented has returned for the same entry
SegmentedReturned == segPc = "done" /\ segResult /= NoRet

\* C28: whenever processFileSequential fails on an entry, the segmented
\* path run on the same entry with any S does not succeed and writes no
\* output: a parse failure met during the boundary scan is not dropped.
C28_SegmentedRejects ==
    (SequentialRejects /\ SegmentedReturned) =>
        /\ ~segResult.Success
        /\ ~segResult.wrote

\* the sequential path failed on a header that does not parse, and the
\* segmented path wrote the blocks before it
C28_AcceptedAfterParseFailure ==
    /\ SequentialRejects
    /\ ~seqResult.panic
    /\ SegmentedReturned
    /\ segResult.Success
    /\ segResult.wrote
    /\ Len(segResult.data) > 0



----------------------------------------------------------------------------
(* The declared 64-bit sizes.  A size is drawn for one field of one place  *)
(* of a well-formed archive: the region_size of a RegionHeader handed to   *)
(* extractRegion, the real_size inside a metadata region, the              *)
(* original_size of a block of region 6.  Values of 2^63 and more are the  *)
(* negative numbers int() makes of them.                                   *)

SizeValues == {0, 1, 16, 48, 4096, 1073741824, -1073741824, -16, -1}

SizedDoc == FileIndexXml(<<1>>)

SizedArchive == MkArchive(FullChain, SizedDoc, NoDefect, <<1, 3, 0>>)

\* the archive with real_size of its metadata region i overwritten
WithRealSize(i, v) ==
    [SizedArchive EXCEPT
        !.at[RegOffset(FullChain, i, SizedDoc)].pt =
            SubSeq(@, 1, 32) \o LE64(v) \o SubSeq(@, 41, Len(@))]

\* region 6 with original_size of its block j overwritten
WithOriginalSize(j, v) ==
    [GoodRegion6 EXCEPT !.at[BlockOffset(j)].OriginalSize = v]

SizeInit ==
    /\ \E v \in SizeValues :
          \/ \E i \in 1..Len(FullChain) :
                fnArgs = [fn |-> "region_size", at |-> i, size |-> v]
          \/ \E i \in 1..Len(FullChain) - 1 :
                fnArgs = [fn |-> "real_size", at |-> i, size |-> v]
          \/ \E j \in 1..Region6Blocks :
                fnArgs = [fn |-> "original_size", at |-> j, size |-> v]
    /\ fnRet = NoRet
    /\ SegIdle
    /\ RunIdle

\* the outcome of a call, with the slice lo:hi of a buffer of cap bytes that
\* the declared size asks for
SizeOutcome(r, lo, size, cap) ==
    [fn |-> fnArgs.fn, err |-> r.err, panic |-> r.panic,
     lo |-> lo, hi |-> lo + size, cap |-> cap]

\* extractRegion on region i declared with region_size v
SizeRegion ==
    /\ fnArgs.fn = "region_size"
    /\ fnRet = NoRet
    /\ \E offset \in {RegOffset(FullChain, fnArgs.at, SizedDoc)} :
       \E r \in {extractRegion(SizedArchive,
                               [RegionType |-> FullChain[fnArgs.at],
                                RegionSize |-> fnArgs.size],
                               offset, AESDict_V1_3_0)} :
          fnRet' = SizeOutcome(r, offset, fnArgs.size, SizedArchive.len)
    /\ UNCHANGED <<fnArgs, notPure>>

\* extractRegion on metadata region i whose block header declares real_size v
SizeReal ==
    /\ fnArgs.fn = "real_size"
    /\ fnRet = NoRet
    /\ \E offset \in {RegOffset(FullChain, fnArgs.at, SizedDoc)} :
       \E size \in {RegSize(FullChain, fnArgs.at, SizedDoc)} :
       \E r \in {extractRegion(WithRealSize(fnArgs.at, fnArgs.size),
                               [RegionType |-> FullChain[fnArgs.at],
                                RegionSize |-> size],
                               offset, AESDict_V1_3_0)} :
          fnRet' = SizeOutcome(r, RegionBlockHeaderSize, fnArgs.size, size)
    /\ UNCHANGED <<fnArgs, notPure>>

\* DecryptNTEncodeBlock on block j whose header declares original_size v
SizeOriginal ==
    /\ fnArgs.fn = "original_size"
    /\ fnRet = NoRet
    /\ \E offset \in {BlockOffset(fnArgs.at)} :
       \E r \in {DecryptNTEncodeBlock(
                     WithOriginalSize(fnArgs.at, fnArgs.size), offset,
                     ExtractKeyFromKeyMap(KeyMapFile,
                                          BaseKeyIndex + fnArgs.at - 1).key)} :
          fnRet' = SizeOutcome(r, offset + NTEncodeHeaderSize, fnArgs.size,
                               GoodRegion6.len)
    /\ UNCHANGED <<fnArgs, notPure>>

SizeNext == SizeRegion \/ SizeReal \/ SizeOriginal

SpecSize == SizeInit /\ [][SizeNext]_vars

SizeReturned ==
    /\ fnArgs /= NoRet
    /\ fnArgs.fn \in {"region_size", "real_size", "original_size"}
    /\ fnRet /= NoRet

\* C29: for every value of region_size, real_size and original_size,
\* extractRegion and DecryptNTEncodeBlock either return an error or take
\* the slice the size declares inside the archive, the decrypted region and
\* region 6: a size that would place the slice outside is an error and is
\* never used for slicing.
C29_SizesChecked ==
    SizeReturned =>
        /\ ~fnRet.panic
        /\ ~fnRet.err => SliceInRange(fnRet.lo, fnRet.hi, fnRet.cap)

\* the same for the sizes below 2^63
C29_BelowSignBit ==
    (SizeReturned /\ fnArgs.size >= 0) =>
        /\ ~fnRet.panic
        /\ ~fnRet.err => SliceInRange(fnRet.lo, fnRet.hi, fnRet.cap)

\* every size of 2^63 and more ends in a panic
C29_SignBitPanics ==
    (SizeReturned /\ fnArgs.size < 0) => fnRet.panic



----------------------------------------------------------------------------
(* From Stage 1 to Stage 2                                                 *)

\* ParseNTPIFile has returned nil and ExtractFiles has not started
HandedOver == pc = "stage2" /\ stage1 = "ok"

\* the files ExtractFiles reads from the scratch directory
Stage2Inputs ==
    {Append(tempDir, "FileIndex.xml"), Append(tempDir, "KeyMap.bin"),
     Append(tempDir, "region6block.bin")}

\* C30: whenever Stage 1 returns success the scratch directory holds
\* FileIndex.xml, KeyMap.bin and region6block.bin, whether the chain ended
\* before a type-6 region or started with one, so that Stage 2 does not fail
\* for a missing input.
C30_StageHandOver == HandedOver => Stage2Inputs \subseteq DOMAIN fsFiles

\* what Stage 1 does leave: region6block.bin exactly when the walk stopped
\* at a type-6 region
C30_Region6WhenWalkEndsThere ==
    HandedOver =>
        (Append(tempDir, "region6block.bin") \in DOMAIN fsFiles
            <=> walk.currentRegion.RegionType = 6)

\* Stage 2 failed on a missing input after a successful Stage 1
C30_Stage2MissesInput ==
    /\ pc = "exited"
    /\ stage1 = "ok"
    /\ stage2 = "failed"
    /\ ~(Stage2Inputs \subseteq DOMAIN fsFiles)
    /\ keepTemp


============================================================================
